---- MODULE Spec2Model ----
(***************************************************************************)
(* Reminder-firing pipeline of the todo-events backend:                    *)
(*   - the reminders table (store) with its API clients (snooze, cancel),  *)
(*   - ReminderWorker (backend/app/workers/reminder_worker.py),            *)
(*   - EventPublisher (backend/app/events/publisher.py) with the tenacity  *)
(*     retry policy declared on _publish_event.                            *)
(* One worker process w owns one publisher (the process-wide singleton),   *)
(* so worker and publisher state are indexed by the same process id.       *)
(***************************************************************************)
EXTENDS Integers, Sequences, FiniteSets, TLC

(* ------------------------------ bounds --------------------------------- *)
NumReminders == 2
NumWorkers == 2
MaxTime == 1
MaxSnooze == 1
MaxFaults == 1
NumFailing == 1
NumPatterns == 2
NumUsers == 2
MaxOccurrences == 1
MaxEvents == 4
MaxBatchSize == 2
MaxCrashes == 1
NumClients == 1
MaxRetriesConfig == 4
PollInterval == 1

(* ------------------------- program constants --------------------------- *)
\* stop_after_attempt(3)
StopAfterAttempt == 3
\* max_retries: int = 3, the default of EventPublisher.__init__ and of
\* EVENT_PUBLISHER_MAX_RETRIES
DefaultMaxRetries == 3
\* wait_exponential(multiplier=1, min=1, max=10); tenacity's exp_base is 2
WaitMultiplier == 1
WaitMin == 1
WaitMax == 10

Reminders == 1..NumReminders
Workers == 1..NumWorkers
\* run_reminder_worker.py starts one worker per process; one process is deployed.
Deployed == {1}
NULL == 0 - 1

TASK_EVENTS_TOPIC == "task-events"
REMINDER_EVENTS_TOPIC == "reminder-events"
NOTIFICATION_EVENTS_TOPIC == "notification-events"

\* What one client.post(...) / raise_for_status() can do:
\*   "ok"         2xx response
\*   "status"     non-2xx response      -> httpx.HTTPStatusError
\*   "network"    connection failure    -> httpx.RequestError
\*   "timeout"    request timed out     -> httpx.TimeoutException
\*   "unexpected" any other exception
TransportOutcomes == {"ok", "status", "network", "timeout", "unexpected"}

Min(a, b) == IF a < b THEN a ELSE b
Max(a, b) == IF a > b THEN a ELSE b

VARIABLES
    now,        \* datetime.utcnow(), in ticks
    reminders,  \* the reminders table: id -> row
    worker,     \* ReminderWorker objects, one per worker process
    publisher,  \* EventPublisher singletons, one per process
    faults,     \* store faults (query / commit failures) still to be injected
    uuids,      \* number of envelope ids generated so far (uuid4)
    delivered,  \* the broker gateway: subject -> number of events it accepted (2xx)
    crashes,    \* worker process crashes so far
    requests,   \* API requests being handled: client -> the handler's state
    process,    \* the worker processes started by run_reminder_worker.py
    patterns    \* the recurrence_patterns table and the API's last response

vars == <<now, reminders, worker, publisher, faults, uuids, delivered, crashes,
          requests, process, patterns>>

(* ------------------------------ the store ------------------------------ *)
\* Stored values of Reminder.task_id / Reminder.user_id as the worker reads
\* them: a UUID (routers/reminders.py declares both UUID) or a value whose
\* text is a decimal number.
IdKinds == {"uuid", "int"}

\* Stored values of the JSONB column Reminder.notification_channels.
\*   shape   "dict" | "list" | "none" (null, or any other JSON value)
\*   has_key the dict has the key "channels"
\*   is_list the channel value is a list of strings
\*   items   the channel list
ChannelValues ==
    { [shape |-> "dict", has_key |-> TRUE,  is_list |-> TRUE,  items |-> <<"email", "push">>],
      [shape |-> "dict", has_key |-> TRUE,  is_list |-> TRUE,  items |-> <<>>],
      [shape |-> "dict", has_key |-> TRUE,  is_list |-> FALSE, items |-> <<>>],
      [shape |-> "dict", has_key |-> FALSE, is_list |-> FALSE, items |-> <<>>],
      [shape |-> "list", has_key |-> FALSE, is_list |-> TRUE,  items |-> <<"push">>],
      [shape |-> "list", has_key |-> FALSE, is_list |-> TRUE,  items |-> <<>>],
      [shape |-> "none", has_key |-> FALSE, is_list |-> FALSE, items |-> <<>>] }

\* A row of the reminders table.
Row(status, scheduled_time, fired_at, task_id, channels) ==
    [ status |-> status, scheduled_time |-> scheduled_time, fired_at |-> fired_at,
      task_id |-> task_id, user_id |-> "int", notification_channels |-> channels ]

\* The default stored channel value: {"channels": ["email", "push"]}.
DictChannels == [shape |-> "dict", has_key |-> TRUE, is_list |-> TRUE, items |-> <<"email", "push">>]

\* The rows the store holds when the worker starts: pending reminders with a
\* scheduled time up to MaxTime, and a reminder cancelled earlier.
ReminderRows ==
    { Row("pending", t, NULL, k, DictChannels) : t \in 0..MaxTime, k \in IdKinds }
      \cup { Row("cancelled", 0, NULL, "int", DictChannels) }

(* --------------------------- due-reminder query ------------------------ *)
\* Mutant of where_status: the status filter is missing.
where_status_missing(row) == TRUE

\* .where(Reminder.status == "pending")
where_status(row) == row.status = "pending"

\* Mutant of where_scheduled_time: the time filter is missing.
where_scheduled_time_missing(row) == TRUE

\* .where(Reminder.scheduled_time <= datetime.utcnow())
where_scheduled_time(row) == row.scheduled_time <= now

\* The rows matching both where-clauses.
due_ids == { r \in Reminders : where_status(reminders[r]) /\ where_scheduled_time(reminders[r]) }

\* Mutant of order_by: the ORDER BY clause is missing.
order_by_missing(S) ==
    { s \in [1..Cardinality(S) -> S] : \A i, j \in 1..Cardinality(S) : i # j => s[i] # s[j] }

\* .order_by(Reminder.scheduled_time.asc()): every enumeration of S in
\* ascending scheduled_time; the order among equal times is the database's.
order_by(S) ==
    { s \in [1..Cardinality(S) -> S] :
        /\ \A i, j \in 1..Cardinality(S) : i # j => s[i] # s[j]
        /\ \A i, j \in 1..Cardinality(S) :
             i < j => reminders[s[i]].scheduled_time <= reminders[s[j]].scheduled_time }

\* Mutant of limit: the batch is one row short.
limit_one_short(s, batch_size) == SubSeq(s, 1, Min(batch_size, Len(s)) - 1)

\* Mutant of limit: the limit is off by one.
limit_off_by_one(s, batch_size) == SubSeq(s, 1, Min(batch_size + 1, Len(s)))

\* .limit(self.batch_size)
limit(s, batch_size) == SubSeq(s, 1, Min(batch_size, Len(s)))

\* session.exec(statement).all(): the loaded ORM objects.
loaded(s) == [ i \in 1..Len(s) |-> [id |-> s[i], scheduled_time |-> reminders[s[i]].scheduled_time] ]

select_due(batch_size) == { loaded(limit(s, batch_size)) : s \in order_by(due_ids) }

(* ------------------------------ publisher ------------------------------ *)
\* No _publish_event call in flight.
NoCall ==
    [ state |-> "idle", caller |-> "none", via |-> "none", topic_arg |-> "none",
      topic |-> "none", event |-> <<>>,
      attempt_number |-> 0, posts |-> <<>>, waits |-> <<>>, result |-> "none" ]

\* A call of _publish_event(topic, event) entering its first attempt.
NewCall(caller, via, topic, event) ==
    [ state |-> "attempt", caller |-> caller, via |-> via, topic_arg |-> "none",
      topic |-> topic, event |-> <<event>>,
      attempt_number |-> 1, posts |-> <<>>, waits |-> <<>>, result |-> "none" ]

\* EventPublisher.__init__: the client is not created at construction.
NewPublisher(enabled) ==
    [ enabled |-> enabled, max_retries |-> DefaultMaxRetries, _client |-> "none",
      clients |-> 0,
      call |-> NoCall ]

\* EventPublisher(max_retries=m, enabled=...), as get_event_publisher builds
\* it when EVENT_PUBLISHER_MAX_RETRIES is set.
ConfiguredPublisher(enabled, max_retries) ==
    [NewPublisher(enabled) EXCEPT !.max_retries = max_retries]

\* The exception client.post / raise_for_status raises for a transport outcome.
post_raises(outcome) ==
    CASE outcome = "ok"         -> "none"
      [] outcome = "status"     -> "HTTPStatusError"
      [] outcome = "network"    -> "RequestError"
      [] outcome = "timeout"    -> "TimeoutException"
      [] outcome = "unexpected" -> "Exception"

\* httpx exception hierarchy: the classes an exception is an instance of.
isinstance(exc, cls) ==
    \/ exc = cls
    \/ cls = "Exception" /\ exc # "none"
    \/ cls = "HTTPError" /\ exc \in {"HTTPStatusError", "RequestError", "TimeoutException"}
    \/ cls = "RequestError" /\ exc = "TimeoutException"

\* The except clauses of _publish_event, in order: what one attempt raises.
attempt_raises(exc) ==
    IF exc = "none" THEN "none"
    ELSE IF isinstance(exc, "HTTPStatusError") THEN "EventPublisherError"
    ELSE IF isinstance(exc, "TimeoutException") \/ isinstance(exc, "RequestError") THEN exc
    ELSE "EventPublisherError"

\* Mutant of retry_if_exception_type: every exception is retried.
retry_if_exception_any(exc) == TRUE

\* retry=retry_if_exception_type((httpx.HTTPError, httpx.TimeoutException))
retry_if_exception_type(exc) ==
    isinstance(exc, "HTTPError") \/ isinstance(exc, "TimeoutException")

\* Mutant of stop_after_attempt: one attempt too many.
stop_after_attempt_late(attempt_number) == attempt_number >= StopAfterAttempt + 1

\* stop=stop_after_attempt(3)
stop_after_attempt(attempt_number) == attempt_number >= StopAfterAttempt

\* Mutant of wait_exponential: a fixed wait, no doubling.
wait_fixed(attempt_number) == Max(Max(0, WaitMin), Min(WaitMultiplier, WaitMax))

\* wait=wait_exponential(multiplier=1, min=1, max=10), after the given attempt
wait_exponential(attempt_number) ==
    Max(Max(0, WaitMin), Min(WaitMultiplier * 2 ^ (attempt_number - 1), WaitMax))

\* The @retry wrapper's decision after an attempt that raised exc ("none":
\* it returned): return the value, re-raise an exception the retry predicate
\* rejects, raise RetryError once the stop condition holds (reraise is not
\* set), or sleep and try again.
retry_decision(exc, attempt_number) ==
    IF exc = "none" THEN "return"
    ELSE IF ~retry_if_exception_type(exc) THEN "raise"
    ELSE IF stop_after_attempt(attempt_number) THEN "RetryError"
    ELSE "sleep"

\* Mutant of noop_mode: the enabled flag is not consulted.
noop_mode_ignored(pub) == FALSE

\* if not self.enabled: return True
noop_mode(pub) == ~pub.enabled

\* Mutant of creates_client: a client is created for every attempt.
creates_client_always(pub) == TRUE

\* `if self._client is None:` (line 131)
creates_client(pub) == pub._client = "none"

\* self._get_client(): the client is created on first use and then reused.
\* clients counts the httpx.AsyncClient objects created and not closed.
_get_client(pub) == IF creates_client(pub) THEN "open" ELSE pub._client

\* Mutant of model_dump: the envelope is stamped again when it is serialized.
model_dump_restamped(event) == [id |-> event.id, time |-> now]

\* event.model_dump(mode="json") and the Ce-Id header (lines 176, 191): the
\* id and time sent are those of the envelope object passed to the call.
model_dump(event) == [id |-> event.id, time |-> event.time]

\* One attempt of _publish_event on publisher p, the transport answering with
\* `outcome`, followed by the decision of the retry wrapper.  A 2xx answer
\* means the gateway accepted the event for its subject.
_publish_event(p, outcome) ==
    LET pub == publisher[p]
        c == pub.call
        exc == attempt_raises(post_raises(outcome))
        decision == retry_decision(exc, c.attempt_number)
        event_data == model_dump(c.event[1])
        post == [id |-> event_data.id, time |-> event_data.time, topic |-> c.topic,
                 outcome |-> outcome]
    IN
    /\ c.state = "attempt"
    /\ IF noop_mode(pub)
       THEN /\ outcome = "ok"
            /\ publisher' = [publisher EXCEPT ![p].call.state = "done",
                                              ![p].call.result = "ok"]
       ELSE publisher' = [publisher EXCEPT
              ![p]._client = _get_client(pub),
              ![p].clients = IF creates_client(pub) THEN @ + 1 ELSE @,
              ![p].call = [c EXCEPT
                 !.posts = Append(@, post),
                 !.state = IF decision = "sleep" THEN "sleep" ELSE "done",
                 !.result = CASE decision = "return" -> "ok"
                              [] decision = "raise" -> exc
                              [] decision = "RetryError" -> "RetryError"
                              [] decision = "sleep" -> "none",
                 !.waits = IF decision = "sleep"
                           THEN Append(@, wait_exponential(c.attempt_number))
                           ELSE @ ] ]
    /\ delivered' = IF ~noop_mode(pub) /\ outcome = "ok"
                     THEN [delivered EXCEPT ![c.event[1].subject] = @ + 1]
                     ELSE delivered
    /\ UNCHANGED <<now, reminders, worker, faults, uuids, crashes, requests, process, patterns>>

\* The backoff sleep of the retry wrapper ends and the next attempt starts.
retry_sleep(p) ==
    /\ publisher[p].call.state = "sleep"
    /\ publisher' = [publisher EXCEPT ![p].call.state = "attempt",
                                      ![p].call.attempt_number = @ + 1]
    /\ UNCHANGED <<now, reminders, worker, faults, uuids, delivered, crashes, requests, process, patterns>>

\* publish_task_event / publish_reminder_event / publish_notification_event:
\* each enters _publish_event with its fixed topic.
publish_task_event(caller, event) ==
    NewCall(caller, "publish_task_event", TASK_EVENTS_TOPIC, event)

publish_reminder_event(caller, event) ==
    NewCall(caller, "publish_reminder_event", REMINDER_EVENTS_TOPIC, event)

publish_notification_event(caller, event) ==
    NewCall(caller, "publish_notification_event", NOTIFICATION_EVENTS_TOPIC, event)

\* str.startswith on an event type, a sequence of its parts ("." is a part).
startswith(type, prefix) ==
    Len(type) >= Len(prefix) /\ SubSeq(type, 1, Len(prefix)) = prefix

\* Mutant of _get_topic_for_event_type: the reminder branch is missing.
_get_topic_without_reminder(event_type) ==
    IF startswith(event_type, <<"task", ".">>) THEN TASK_EVENTS_TOPIC
    ELSE IF startswith(event_type, <<"notification", ".">>) THEN NOTIFICATION_EVENTS_TOPIC
    ELSE TASK_EVENTS_TOPIC

\* _get_topic_for_event_type
_get_topic_for_event_type(event_type) ==
    IF startswith(event_type, <<"task", ".">>) THEN TASK_EVENTS_TOPIC
    ELSE IF startswith(event_type, <<"reminder", ".">>) THEN REMINDER_EVENTS_TOPIC
    ELSE IF startswith(event_type, <<"notification", ".">>) THEN NOTIFICATION_EVENTS_TOPIC
    ELSE TASK_EVENTS_TOPIC

\* publish(event, topic=None): the topic is resolved from the type when it is
\* not given ("none").  topic_arg records the argument the caller passed.
publish(caller, event, topic) ==
    [ NewCall(caller, "publish",
              IF topic = "none" THEN _get_topic_for_event_type(event.type) ELSE topic,
              event)
      EXCEPT !.topic_arg = topic ]

\* EventPublisher.close()
close(pub) ==
    IF pub._client # "none"
    THEN [pub EXCEPT !._client = "none", !.clients = @ - 1]
    ELSE pub

(* ------------------------------- worker -------------------------------- *)
\* ReminderWorker.__init__, before run() is called.  pc is the position of
\* the worker's coroutine; log, due_at_query, queried_at and cycle record what
\* the current cycle did (the logger output of the cycle), prev how the cycle
\* before it ended and the reminders it left without a commit,
\* stop_requested_at where run() was when "Stop requested" was logged,
\* published how many publish calls the worker has made for each reminder.
NewWorker(batch_size) ==
    [ batch_size |-> batch_size,
      pc |-> "stopped", _running |-> FALSE, _shutdown_event |-> FALSE,
      session |-> 0, due_reminders |-> <<>>, idx |-> 0,
      processed_count |-> 0, failed_count |-> 0, waited |-> 0,
      log |-> <<>>, due_at_query |-> {}, queried_at |-> NULL, cycle |-> "none",
      prev |-> [cycle |-> "none", uncommitted |-> {}],
      stop_requested_at |-> "none",
      published |-> [r \in Reminders |-> 0] ]

\* The reminder the for-loop of process_due_reminders is at.
current(w) == worker[w].due_reminders[worker[w].idx].id

\* Lines 199-211 of run(): self._running = True, the signal handlers are
\* installed and the loop is entered.
entered(wk) == [wk EXCEPT !.pc = "loop", !._running = TRUE, !.stop_requested_at = "none"]

\* ReminderWorker.run(), up to the loop: self._running = True.
run(w) ==
    /\ worker[w].pc = "stopped"
    /\ worker' = [worker EXCEPT ![w] = entered(@)]
    /\ UNCHANGED <<now, reminders, publisher, faults, uuids, delivered, crashes, requests, process, patterns>>

\* Mutant of while_condition: `while True:`.
while_true(wk) == TRUE

\* The condition of `while self._running:`.
while_condition(wk) == wk._running

\* `while self._running:` -- start a cycle, or leave the loop for `finally`.
while_running(w) ==
    /\ worker[w].pc = "loop"
    /\ worker' = [worker EXCEPT ![w].pc = IF while_condition(worker[w]) THEN "query" ELSE "closing"]
    /\ UNCHANGED <<now, reminders, publisher, faults, uuids, delivered, crashes, requests, process, patterns>>

\* Mutant of run_catches: run() has no `except` around the cycle.
run_catches_nothing(exc) == FALSE

\* `except Exception` in the loop of run() (lines 217-219): every exception a
\* cycle raises is logged and the loop goes on.
run_catches(exc) == TRUE

\* Mutant of session_exit: the session is not closed.
session_leaked(wk) == wk

\* `with self.session_factory() as session:` (line 94) is left, by the end of
\* its block, a return or an exception: the session is closed.  session
\* counts the worker's open sessions.
session_exit(wk) == [wk EXCEPT !.session = @ - 1]

\* self.session_factory() at line 94: a session is opened.
session_factory(wk) == [wk EXCEPT !.session = @ + 1]

\* process_due_reminders raised exc to run(): on to the code after the
\* try/except of the loop, or (not caught) out of run() through `finally`.
raised(wk, cycle, exc) ==
    [session_exit(wk) EXCEPT !.pc = IF run_catches(exc) THEN "after_cycle" ELSE "closing",
                             !.cycle = cycle]

\* process_due_reminders(), from its start to the first reminder of the batch:
\* open the session and run the due-reminder query.  The session factory or
\* the query may fail: the error is re-raised to run(), which logs it.
process_due_reminders(w) ==
    /\ worker[w].pc = "query"
    /\ \/ /\ faults > 0
          /\ faults' = faults - 1
          /\ worker' = [worker EXCEPT ![w] =
                raised([session_factory(worker[w]) EXCEPT
                          !.due_reminders = <<>>, !.idx = 0, !.log = <<>>,
                          !.due_at_query = {}, !.queried_at = now,
                          !.processed_count = 0, !.failed_count = 0],
                       "query_failed", "StoreError")]
       \/ /\ \E batch \in select_due(worker[w].batch_size) :
               LET opened == session_factory(worker[w]) IN
               worker' = [worker EXCEPT ![w] =
                  [(IF batch = <<>> THEN session_exit(opened) ELSE opened) EXCEPT
                     !.due_reminders = batch,
                     !.due_at_query = due_ids,
                     !.queried_at = now,
                     !.log = <<>>,
                     !.processed_count = 0, !.failed_count = 0,
                     !.idx = IF batch = <<>> THEN 0 ELSE 1,
                     !.cycle = IF batch = <<>> THEN "completed" ELSE "running",
                     !.pc = IF batch = <<>> THEN "after_cycle" ELSE "item"]]
          /\ UNCHANGED faults
    /\ UNCHANGED <<now, reminders, publisher, uuids, delivered, crashes, requests, process, patterns>>

\* Lines 160-164: the channel list taken from the stored JSONB value.
extract_channels(nc) ==
    IF nc.shape = "dict"
    THEN IF nc.has_key THEN [is_list |-> nc.is_list, items |-> nc.items]
         ELSE [is_list |-> TRUE, items |-> <<"email">>]
    ELSE IF nc.shape = "list" THEN [is_list |-> TRUE, items |-> nc.items]
    ELSE [is_list |-> TRUE, items |-> <<"email">>]

\* Building TaskReminderFiredEvent / TaskReminderFiredData for a row: the
\* exception it raises.  int(str(x)) raises ValueError for a UUID;
\* notification_channels must be a list of strings (it may be empty).
build_raises(row) ==
    IF row.task_id # "int" \/ row.user_id # "int" THEN "ValueError"
    ELSE IF ~extract_channels(row.notification_channels).is_list THEN "ValidationError"
    ELSE "none"

\* The reminder.fired envelope: id and time are fixed at construction.
TaskReminderFiredEvent(r, row) ==
    [ id |-> uuids + 1, type |-> <<"reminder", ".", "fired">>, time |-> now,
      subject |-> r, data |-> "TaskReminderFiredData",
      channels |-> extract_channels(row.notification_channels).items ]

\* Mutant of publish_reminder_fired_raises: only EventPublisherError is caught.
only_publisher_error_caught(exc) == exc # "EventPublisherError"

\* `except Exception` of _publish_reminder_fired: the exceptions it lets
\* through to process_due_reminders (none).
publish_reminder_fired_raises(exc) == FALSE

\* The for-loop moves to the next reminder of the batch, or the cycle ends
\* (process_due_reminders returns).
next_reminder(wk) ==
    LET last == wk.idx = Len(wk.due_reminders) IN
    [(IF last THEN session_exit(wk) ELSE wk) EXCEPT
               !.idx = IF last THEN @ ELSE @ + 1,
               !.cycle = IF last THEN "completed" ELSE @,
               !.pc = IF last THEN "after_cycle" ELSE "item"]

\* Mutant of loop_catches: the try/except encloses the whole for-loop, so a
\* failing reminder ends the batch.
loop_catches_nothing(exc) == FALSE

\* `except Exception` inside the for-loop body (lines 129-135).
loop_catches(exc) == TRUE

\* Mutant of failed: the failure is not counted.
failed_uncounted(wk, exc) ==
    IF loop_catches(exc)
    THEN next_reminder(wk)
    ELSE raised(wk, "aborted", exc)

\* The body of the for-loop raised exc for the current reminder: rollback,
\* failed_count += 1 and on to the next reminder.
failed(wk, exc) ==
    IF loop_catches(exc)
    THEN next_reminder([wk EXCEPT !.failed_count = @ + 1])
    ELSE raised(wk, "aborted", exc)

\* The worker after _publish_reminder_fired ended with `exc` for the current
\* reminder: on to the status update, or (an escaping exception) to the
\* `except` of the for-loop body.
after_publish(w, called, exc) ==
    LET wk == worker[w]
        entry == [ev |-> "publish", id |-> current(w), called |-> called, result |-> exc]
    IN
    IF exc # "ok" /\ publish_reminder_fired_raises(exc)
    THEN failed([wk EXCEPT !.log = Append(@, entry)], exc)
    ELSE [wk EXCEPT !.log = Append(@, entry), !.pc = "commit"]

\* Mutant of mark_fired: the scheduled time is overwritten with the firing time.
mark_fired_rescheduled(row) ==
    [row EXCEPT !.status = "fired", !.fired_at = now, !.scheduled_time = now]

\* Mutant of mark_fired: fired_at is not set.
mark_fired_without_fired_at(row) == [row EXCEPT !.status = "fired"]

\* Lines 118-119: the update of the current reminder.
mark_fired(row) == [row EXCEPT !.status = "fired", !.fired_at = now]

\* Mutant of before_publish: the reminder is marked fired and committed
\* before its event is published.
fired_before_publish(row) == mark_fired(row)

\* Lines 113-115: the stored row when the publish call is made: nothing is
\* written before it; status and fired_at are set after it returns.
before_publish(row) == row

\* _publish_reminder_fired(reminder), up to the publisher call: build the
\* envelope and call publish_reminder_event, which enters _publish_event
\* with REMINDER_EVENTS_TOPIC.  A failure to build the envelope is caught.
_publish_reminder_fired(w) ==
    LET r == current(w)
        row == reminders[r]
    IN
    /\ worker[w].pc = "item"
    /\ IF build_raises(row) # "none"
       THEN /\ worker' = [worker EXCEPT ![w] = after_publish(w, FALSE, build_raises(row))]
            /\ UNCHANGED <<publisher, uuids>>
       ELSE /\ publisher[w].call.state = "idle"
            /\ publisher' = [publisher EXCEPT ![w].call =
                  publish_reminder_event("worker", TaskReminderFiredEvent(r, row))]
            /\ uuids' = uuids + 1
            /\ worker' = [worker EXCEPT ![w].pc = "publishing",
                                        ![w].published[r] = @ + 1]
    /\ reminders' = [reminders EXCEPT ![r] = before_publish(@)]
    /\ UNCHANGED <<now, faults, delivered, crashes, requests, process, patterns>>

\* publish_reminder_event returned or raised: the rest of
\* _publish_reminder_fired.
publish_returned(w) ==
    /\ worker[w].pc = "publishing"
    /\ publisher[w].call.state = "done"
    /\ publisher[w].call.caller = "worker"
    /\ worker' = [worker EXCEPT ![w] = after_publish(w, TRUE, publisher[w].call.result)]
    /\ publisher' = [publisher EXCEPT ![w].call = NoCall]
    /\ UNCHANGED <<now, reminders, faults, uuids, delivered, crashes, requests, process, patterns>>

\* Mutant of rollback: the update of the failed transaction stays in the store.
rollback_missing(row) == mark_fired(row)

\* session.rollback() after a failed commit: the stored row is as it was.
rollback(row) == row

\* Lines 118-135: set status and fired_at, commit; a failing commit is rolled
\* back and counted.  Then the next reminder, or the end of the cycle.
commit_reminder(w) ==
    LET wk == worker[w]
        r == current(w)
        entry(result) == [ev |-> "commit", id |-> r, called |-> TRUE, result |-> result]
    IN
    /\ wk.pc = "commit"
    /\ \/ /\ reminders' = [reminders EXCEPT ![r] = mark_fired(@)]
          /\ worker' = [worker EXCEPT ![w] =
                next_reminder([wk EXCEPT !.log = Append(@, entry("ok")),
                                         !.processed_count = @ + 1])]
          /\ UNCHANGED faults
       \/ /\ faults > 0
          /\ faults' = faults - 1
          /\ reminders' = [reminders EXCEPT ![r] = rollback(@)]
          /\ worker' = [worker EXCEPT ![w] =
                failed([wk EXCEPT !.log = Append(@, entry("StoreError"))], "StoreError")]
    /\ UNCHANGED <<now, publisher, uuids, delivered, crashes, requests, process, patterns>>

\* The reminders whose commit fails whenever it is made.
Failing == 1..NumFailing

\* Lines 121, 129-135 for a reminder of Failing: session.commit() raises, the
\* transaction is rolled back and the failure counted.
commit_raises(w) ==
    LET wk == worker[w]
        r == current(w)
        entry == [ev |-> "commit", id |-> r, called |-> TRUE, result |-> "StoreError"]
    IN
    /\ wk.pc = "commit"
    /\ r \in Failing
    /\ reminders' = [reminders EXCEPT ![r] = rollback(@)]
    /\ worker' = [worker EXCEPT ![w] = failed([wk EXCEPT !.log = Append(@, entry)], "StoreError")]
    /\ UNCHANGED <<now, publisher, faults, uuids, delivered, crashes, requests, process, patterns>>

\* The reminders of the cycle's log whose commit failed.
uncommitted(log) ==
    { log[k].id : k \in { j \in 1..Len(log) : log[j].ev = "commit" /\ log[j].result # "ok" } }

\* Mutant of if_running: the wait is entered whether or not a stop was requested.
if_running_missing(wk) == TRUE

\* `if self._running:` after the cycle (line 222).
if_running(wk) == wk._running

\* Lines 222-231: after the cycle, `if self._running:` enter the wait.
after_cycle(w) ==
    /\ worker[w].pc = "after_cycle"
    /\ worker' = [worker EXCEPT ![w].pc = IF if_running(worker[w]) THEN "waiting" ELSE "loop",
                                ![w].waited = 0,
                                ![w].due_reminders = <<>>, ![w].idx = 0, ![w].log = <<>>,
                                ![w].due_at_query = {}, ![w].queried_at = NULL,
                                ![w].cycle = "none",
                                ![w].prev = [cycle |-> worker[w].cycle,
                                             uncommitted |-> uncommitted(worker[w].log)],
                                ![w].processed_count = 0, ![w].failed_count = 0]
    /\ UNCHANGED <<now, reminders, publisher, faults, uuids, delivered, crashes, requests, process, patterns>>

\* Mutant of wait_for_ends: asyncio.sleep(poll_interval), the event is not awaited.
wait_for_timeout_only(wk) == wk.waited >= PollInterval

\* asyncio.wait_for(self._shutdown_event.wait(), timeout=self.poll_interval)
\* ends when the event is set or the timeout has elapsed.
wait_for_ends(wk) == wk._shutdown_event \/ wk.waited >= PollInterval

\* The wait ends: the event was set (wait() returned), or asyncio.TimeoutError
\* was raised and passed over.
wait_for(w) ==
    /\ worker[w].pc = "waiting"
    /\ wait_for_ends(worker[w])
    /\ worker' = [worker EXCEPT ![w].pc = "loop"]
    /\ UNCHANGED <<now, reminders, publisher, faults, uuids, delivered, crashes, requests, process, patterns>>

\* `finally:` of run(): await self.event_publisher.close(); run() returns.
finally(w) ==
    /\ worker[w].pc = "closing"
    /\ worker' = [worker EXCEPT ![w].pc = "stopped"]
    /\ publisher' = [publisher EXCEPT ![w] = close(@)]
    /\ UNCHANGED <<now, reminders, faults, uuids, delivered, crashes, requests, process, patterns>>

\* ReminderWorker.stop(), and the SIGINT/SIGTERM handler installed by run().
stop(w) ==
    /\ worker[w]._running \/ ~worker[w]._shutdown_event
    /\ worker' = [worker EXCEPT ![w]._running = FALSE, ![w]._shutdown_event = TRUE,
                                ![w].stop_requested_at = worker[w].pc]
    /\ UNCHANGED <<now, reminders, publisher, faults, uuids, delivered, crashes, requests, process, patterns>>

\* The worker process dies (kill -9, out of memory, host failure) while run()
\* is executing: the objects main() created are gone, the open transaction is
\* discarded by the database and the call in flight is abandoned.  What the
\* process logged survives: the reminder, if any, whose publish had succeeded
\* and whose commit had not happened.
crash(w) ==
    LET wk == worker[w]
        c == publisher[w].call
        published == \/ wk.pc = "commit" /\ wk.log[Len(wk.log)].result = "ok"
                    \/ /\ wk.pc = "publishing"
                       /\ \E i \in 1..Len(c.posts) : c.posts[i].outcome = "ok"
    IN
    /\ crashes < MaxCrashes
    /\ wk.pc # "stopped"
    /\ worker' = [worker EXCEPT ![w] =
          [NewWorker(wk.batch_size) EXCEPT
              !.prev = [cycle |-> "crashed",
                        uncommitted |-> IF published THEN {current(w)} ELSE {}]]]
    /\ publisher' = [publisher EXCEPT ![w] = NewPublisher(@.enabled)]
    /\ crashes' = crashes + 1
    /\ UNCHANGED <<now, reminders, faults, uuids, delivered, requests, process, patterns>>

(* ---------------------- store clients and the clock -------------------- *)
\* The API handlers run in the API process on their own database session:
\* between the handler's SELECT (session.get) and its UPDATE (session.commit)
\* the worker process may commit.  A handler is therefore two steps, the
\* load and the rest; commit() writes the columns the handler assigned.
Clients == 1..NumClients

\* No request is being handled for a client.
NoRequest == [handler |-> "none", id |-> 0, status |-> "none", duration_minutes |-> 0]

\* reminder = session.get(Reminder, reminder_id): the loaded object.
get(handler, r, duration_minutes) ==
    [handler |-> handler, id |-> r, status |-> reminders[r].status,
     duration_minutes |-> duration_minutes]

\* POST /reminders/{id}/snooze, lines 179-193: load the reminder.
snooze_reminder(c, r, duration_minutes) ==
    /\ requests[c].handler = "none"
    /\ requests' = [requests EXCEPT ![c] = get("snooze_reminder", r, duration_minutes)]
    /\ UNCHANGED <<now, reminders, worker, publisher, faults, uuids, delivered, crashes, process, patterns>>

\* Lines 195-218: a reminder loaded as pending is moved to utcnow() + duration;
\* any other is rejected (400).
snooze_reminder_commit(c) ==
    LET req == requests[c] IN
    /\ req.handler = "snooze_reminder"
    /\ reminders' = IF req.status # "pending" THEN reminders
                    ELSE [reminders EXCEPT ![req.id].scheduled_time = now + req.duration_minutes]
    /\ requests' = [requests EXCEPT ![c] = NoRequest]
    /\ UNCHANGED <<now, worker, publisher, faults, uuids, delivered, crashes, process, patterns>>

\* DELETE /reminders/{id}, lines 231-244: load the reminder.
cancel_reminder(c, r) ==
    /\ requests[c].handler = "none"
    /\ requests' = [requests EXCEPT ![c] = get("cancel_reminder", r, 0)]
    /\ UNCHANGED <<now, reminders, worker, publisher, faults, uuids, delivered, crashes, process, patterns>>

\* Lines 246-258: a reminder loaded as pending is marked cancelled; for any
\* other nothing is written.
cancel_reminder_commit(c) ==
    LET req == requests[c] IN
    /\ req.handler = "cancel_reminder"
    /\ reminders' = IF req.status = "pending"
                    THEN [reminders EXCEPT ![req.id].status = "cancelled"]
                    ELSE reminders
    /\ requests' = [requests EXCEPT ![c] = NoRequest]
    /\ UNCHANGED <<now, worker, publisher, faults, uuids, delivered, crashes, process, patterns>>

\* Time passes by one tick, for the clock and for every worker in its wait.
Tick ==
    /\ now < MaxTime \/ \E w \in Workers : worker[w].pc = "waiting" /\ worker[w].waited < PollInterval
    /\ now' = Min(now + 1, MaxTime)
    /\ worker' = [w \in Workers |->
          IF worker[w].pc = "waiting"
          THEN [worker[w] EXCEPT !.waited = Min(@ + 1, PollInterval)]
          ELSE worker[w]]
    /\ UNCHANGED <<reminders, publisher, faults, uuids, delivered, crashes, requests, process, patterns>>

(* -------------------------- recurring patterns ------------------------- *)
\* POST / PUT / DELETE /recurring.  A request is validated against its schema
\* (422) before the handler runs; the handler loads, tests and commits.
PatternIds == 1..NumPatterns
Users == 1..NumUsers

\* A field the request body does not contain (model_dump(exclude_unset=True)
\* leaves it out); NULL is an explicit null.
UNSET == 0 - 2

\* No row with this id.
NoPattern ==
    [ exists |-> FALSE, user_id |-> 0,
      end_date |-> NULL, max_occurrences |-> NULL, updated_at |-> NULL ]

\* No request has been answered.
NoResponse ==
    [ handler |-> "none", id |-> 0, end_date |-> UNSET, max_occurrences |-> UNSET,
      status_code |-> 0 ]

\* The empty recurrence_patterns table.
NoPatterns == [ table |-> [i \in PatternIds |-> NoPattern], last |-> NoResponse ]

\* The values a request may carry for end_date and max_occurrences.
EndDateArgs == {NULL, MaxTime}
MaxOccurrencesArgs == {NULL} \cup 0..MaxOccurrences

\* max_occurrences: Optional[int] = Field(default=None, ge=1)
Field_ge_1(v) == v \in {UNSET, NULL} \/ v >= 1

\* Truth value of an Optional[datetime]: every datetime is true.
bool_datetime(v) == v # NULL

\* Truth value of an Optional[int]: None and 0 are false.
bool_int(v) == v # NULL /\ v # 0

\* Mutant of both_end_conditions: the mutual exclusion is not tested.
both_end_conditions_untested(end_date, max_occurrences) == FALSE

\* `if x.end_date and x.max_occurrences:` (lines 187 and 280)
both_end_conditions(end_date, max_occurrences) ==
    bool_datetime(end_date) /\ bool_int(max_occurrences)

\* The response to a request, kept with the request's end conditions.
Response(handler, id, end_date, max_occurrences, status_code) ==
    [ handler |-> handler, id |-> id, end_date |-> end_date,
      max_occurrences |-> max_occurrences, status_code |-> status_code ]

\* RecurrencePattern(...) of lines 194-204, stored by commit(): the owner and
\* the end conditions (the other columns take no part in any test).
RecurrencePattern(user, end_date, max_occurrences) ==
    [ exists |-> TRUE, user_id |-> user,
      end_date |-> end_date, max_occurrences |-> max_occurrences, updated_at |-> now ]

\* POST /recurring, lines 176-215.
create_recurring_pattern(current_user, end_date, max_occurrences) ==
    LET respond(id, code) == Response("create_recurring_pattern", id, end_date, max_occurrences, code)
        free == { i \in PatternIds : ~patterns.table[i].exists }
    IN
    /\ free # {}
    /\ IF ~Field_ge_1(max_occurrences)
       THEN patterns' = [patterns EXCEPT !.last = respond(0, 422)]
       ELSE IF both_end_conditions(end_date, max_occurrences)
       THEN patterns' = [patterns EXCEPT !.last = respond(0, 400)]
       ELSE \E id \in free :
               patterns' = [patterns EXCEPT
                  !.table[id] = RecurrencePattern(current_user, end_date, max_occurrences),
                  !.last = respond(id, 201)]
    /\ UNCHANGED <<now, reminders, worker, publisher, faults, uuids, delivered, crashes, requests, process>>

\* Lines 275-277: update_data = model_dump(exclude_unset=True); setattr for
\* each key of it.
setattr(pattern, end_date, max_occurrences) ==
    [pattern EXCEPT
        !.end_date = IF end_date = UNSET THEN @ ELSE end_date,
        !.max_occurrences = IF max_occurrences = UNSET THEN @ ELSE max_occurrences]

\* PUT /recurring/{id}, lines 246-296.  The object is changed in the session
\* and written by commit(); a request answered with an error commits nothing.
update_recurring_pattern(current_user, id, end_date, max_occurrences) ==
    LET respond(code) == Response("update_recurring_pattern", id, end_date, max_occurrences, code)
        pattern == patterns.table[id]
        updated == setattr(pattern, end_date, max_occurrences)
    IN
    /\ patterns' =
          IF ~Field_ge_1(max_occurrences) THEN [patterns EXCEPT !.last = respond(422)]
          ELSE IF ~pattern.exists THEN [patterns EXCEPT !.last = respond(404)]
          ELSE IF pattern.user_id # current_user THEN [patterns EXCEPT !.last = respond(403)]
          ELSE IF both_end_conditions(updated.end_date, updated.max_occurrences)
          THEN [patterns EXCEPT !.last = respond(400)]
          ELSE [patterns EXCEPT !.table[id] = [updated EXCEPT !.updated_at = now],
                                !.last = respond(200)]
    /\ UNCHANGED <<now, reminders, worker, publisher, faults, uuids, delivered, crashes, requests, process>>

\* DELETE /recurring/{id}, lines 299-347: the pattern is deleted whatever
\* the delete_mode.
delete_recurring_pattern(current_user, id) ==
    LET respond(code) == Response("delete_recurring_pattern", id, UNSET, UNSET, code)
        pattern == patterns.table[id]
    IN
    /\ patterns' =
          IF ~pattern.exists THEN [patterns EXCEPT !.last = respond(404)]
          ELSE IF pattern.user_id # current_user THEN [patterns EXCEPT !.last = respond(403)]
          ELSE [patterns EXCEPT !.table[id] = NoPattern, !.last = respond(204)]
    /\ UNCHANGED <<now, reminders, worker, publisher, faults, uuids, delivered, crashes, requests, process>>

(* ------------------- direct callers of the publisher ------------------- *)
\* Event types, as sequences of their parts: the taxonomy's types the typed
\* entry points take, an unknown type, and a type without a dot.
EventTypes ==
    { <<"task", ".", "created">>, <<"reminder", ".", "fired">>,
      <<"notification", ".", "sent">>, <<"bogus", ".", "x">>, <<"reminder">> }

\* Topics a caller of publish() passes: None, or an explicit topic (one of the
\* pipeline's topics, or any other name).
TopicArgs == {"none", "custom-topic", REMINDER_EVENTS_TOPIC}

\* CloudEvent(type=...): id and time default to uuid4() and utcnow().
CloudEvent(type) ==
    [ id |-> uuids + 1, type |-> type, time |-> now, subject |-> 0, data |-> "Any",
      channels |-> <<>> ]

\* A caller other than the worker (an API endpoint, as in usage_example.py)
\* builds an event and awaits one of the publisher's entry points.
api_call(p, call) ==
    /\ publisher[p].call.state = "idle"
    /\ uuids < MaxEvents
    /\ publisher' = [publisher EXCEPT ![p].call = call]
    /\ uuids' = uuids + 1
    /\ UNCHANGED <<now, reminders, worker, faults, delivered, crashes, requests, process, patterns>>

api_publish(p, type, topic) ==
    api_call(p, publish("api", CloudEvent(type), topic))

api_publish_task_event(p) ==
    api_call(p, publish_task_event("api", CloudEvent(<<"task", ".", "created">>)))

api_publish_reminder_event(p) ==
    api_call(p, publish_reminder_event("api", CloudEvent(<<"reminder", ".", "fired">>)))

api_publish_notification_event(p) ==
    api_call(p, publish_notification_event("api", CloudEvent(<<"notification", ".", "sent">>)))

\* The awaited entry point returns (or raises) to the API caller.
api_returned(p) ==
    /\ publisher[p].call.state = "done"
    /\ publisher[p].call.caller = "api"
    /\ publisher' = [publisher EXCEPT ![p].call = NoCall]
    /\ UNCHANGED <<now, reminders, worker, faults, uuids, delivered, crashes, requests, process, patterns>>

\* close_event_publisher(), the application's shutdown hook.
close_event_publisher(p) ==
    /\ publisher[p].call.state = "idle"
    /\ publisher[p]._client # "none"
    /\ publisher' = [publisher EXCEPT ![p] = close(@)]
    /\ UNCHANGED <<now, reminders, worker, faults, uuids, delivered, crashes, requests, process, patterns>>

(* --------------------------- the event model -------------------------- *)
\* The payload classes of schemas.py: the fields of each and their types.
DataFields(data) ==
    CASE data = "TaskCreatedData" ->
           { <<"task_id", "int">>, <<"user_id", "int">>, <<"title", "str">>,
             <<"description", "str">>, <<"priority", "Literal">> }
      [] data = "TaskUpdatedData" ->
           { <<"task_id", "int">>, <<"user_id", "int">>, <<"changes", "Dict">>,
             <<"previous_values", "Dict">> }
      [] data = "TaskDeletedData" ->
           { <<"task_id", "int">>, <<"user_id", "int">>, <<"title", "str">>,
             <<"was_complete", "bool">> }
      [] data = "ReminderScheduledData" ->
           { <<"reminder_id", "UUID4">>, <<"task_id", "UUID4">>, <<"user_id", "UUID4">>,
             <<"scheduled_time", "datetime">>, <<"notification_channels", "list[str]">> }
      [] data = "ReminderFiredData" ->
           { <<"reminder_id", "UUID4">>, <<"task_id", "UUID4">>, <<"user_id", "UUID4">>,
             <<"fired_at", "datetime">>, <<"scheduled_time", "datetime">>,
             <<"notification_channels", "list[str]">> }
      [] data = "TaskReminderScheduledData" ->
           { <<"task_id", "int">>, <<"user_id", "int">>,
             <<"scheduled_time", "datetime">>, <<"notification_channels", "list[str]">> }
      [] data = "ReminderCancelledData" ->
           { <<"task_id", "int">>, <<"user_id", "int">>, <<"reason", "Literal">>,
             <<"cancelled_at", "datetime">> }
      [] data = "TaskReminderFiredData" ->
           { <<"reminder_id", "UUID4">>, <<"task_id", "int">>, <<"user_id", "int">>,
             <<"fired_at", "datetime">>, <<"scheduled_time", "datetime">>,
             <<"notification_channels", "list[str]">> }
      [] data = "NotificationSentData" ->
           { <<"notification_id", "UUID4">>, <<"reminder_id", "UUID4">>,
             <<"user_id", "UUID4">>, <<"channel", "Literal">>, <<"status", "Literal">>,
             <<"sent_at", "datetime">>, <<"attempt", "int">>, <<"error", "Optional[str]">> }

\* The envelope variants of schemas.py (lines 424-664): class, type literal
\* and payload class.
EventClasses ==
    { [class |-> "TaskCreatedEvent", type |-> <<"task", ".", "created">>, data |-> "TaskCreatedData"],
      [class |-> "TaskUpdatedEvent", type |-> <<"task", ".", "updated">>, data |-> "TaskUpdatedData"],
      [class |-> "TaskDeletedEvent", type |-> <<"task", ".", "deleted">>, data |-> "TaskDeletedData"],
      [class |-> "ReminderScheduledEvent", type |-> <<"reminder", ".", "scheduled">>,
       data |-> "ReminderScheduledData"],
      [class |-> "ReminderFiredEvent", type |-> <<"reminder", ".", "fired">>,
       data |-> "ReminderFiredData"],
      [class |-> "TaskReminderScheduledEvent", type |-> <<"reminder", ".", "scheduled">>,
       data |-> "TaskReminderScheduledData"],
      [class |-> "ReminderCancelledEvent", type |-> <<"reminder", ".", "cancelled">>,
       data |-> "ReminderCancelledData"],
      [class |-> "TaskReminderFiredEvent", type |-> <<"reminder", ".", "fired">>,
       data |-> "TaskReminderFiredData"],
      [class |-> "NotificationSentEvent", type |-> <<"notification", ".", "sent">>,
       data |-> "NotificationSentData"] }

(* ------------------------------ the process --------------------------- *)
\* A process running run_reminder_worker.py with its environment: whether
\* REMINDER_WORKER_ENABLED reads "true", whether DATABASE_URL is set and
\* whether the poll interval and batch size read as integers.  raised is the
\* exception that left asyncio.run, once it returned.
Process(worker_enabled, database_url, numbers) ==
    [ worker_enabled |-> worker_enabled, database_url |-> database_url,
      numbers |-> numbers, pc |-> "main", raised |-> "none", exit_code |-> NULL ]

\* A process whose main() has built the worker and is at asyncio.run (line 95).
Started == [Process(TRUE, TRUE, TRUE) EXCEPT !.pc = "asyncio.run"]

\* sys.exit(code), or the interpreter ending.
exit(proc, code) == [proc EXCEPT !.pc = "exited", !.exit_code = code]

\* Lines 48-91 of main(): the configuration is read, then the engine, the
\* publisher and the worker are built.  int() of a setting that is not a
\* number raises ValueError out of main(): the interpreter exits with 1.
main(w) ==
    LET proc == process[w] IN
    /\ proc.pc = "main"
    /\ process' = [process EXCEPT ![w] =
          IF ~proc.worker_enabled THEN exit(proc, 0)
          ELSE IF ~proc.database_url THEN exit(proc, 1)
          ELSE IF ~proc.numbers THEN exit([proc EXCEPT !.raised = "ValueError"], 1)
          ELSE [proc EXCEPT !.pc = "asyncio.run"]]
    /\ UNCHANGED <<now, reminders, worker, publisher, faults, uuids, delivered, crashes, requests, patterns>>

\* asyncio.run(worker.run()), line 95: run() starts.
asyncio_run(w) ==
    /\ process[w].pc = "asyncio.run"
    /\ worker[w].pc = "stopped"
    /\ worker' = [worker EXCEPT ![w] = entered(@)]
    /\ process' = [process EXCEPT ![w].pc = "running"]
    /\ UNCHANGED <<now, reminders, publisher, faults, uuids, delivered, crashes, requests, patterns>>

\* Ctrl-C before run() has installed its own SIGINT handler: asyncio.run
\* raises KeyboardInterrupt.
KeyboardInterrupt(w) ==
    /\ process[w].pc = "asyncio.run"
    /\ process' = [process EXCEPT ![w].pc = "returned", ![w].raised = "KeyboardInterrupt"]
    /\ UNCHANGED <<now, reminders, worker, publisher, faults, uuids, delivered, crashes, requests, patterns>>

\* An exception leaves run(): asyncio.wait_for raises something other than
\* TimeoutError, outside the inner try; the finally clause closes the
\* publisher on the way out.
run_raises(w) ==
    /\ process[w].pc = "running"
    /\ worker[w].pc = "waiting"
    /\ worker' = [worker EXCEPT ![w].pc = "stopped"]
    /\ publisher' = [publisher EXCEPT ![w] = close(@)]
    /\ process' = [process EXCEPT ![w].pc = "returned", ![w].raised = "Exception"]
    /\ UNCHANGED <<now, reminders, faults, uuids, delivered, crashes, requests, patterns>>

\* run() returns after its finally clause.
run_returns(w) ==
    /\ process[w].pc = "running"
    /\ worker[w].pc = "stopped"
    /\ process' = [process EXCEPT ![w].pc = "returned"]
    /\ UNCHANGED <<now, reminders, worker, publisher, faults, uuids, delivered, crashes, requests, patterns>>

\* Mutant of except_clauses: every exception ends the process with 0.
except_clauses_swallow(exc) == 0

\* Lines 94-101: the exit code after asyncio.run.  KeyboardInterrupt exits
\* with 0, any other exception with 1; without an exception main() returns
\* and the interpreter exits with 0.
except_clauses(exc) ==
    CASE exc = "none" -> 0
      [] exc = "KeyboardInterrupt" -> 0
      [] OTHER -> 1

\* The process ends.
sys_exit(w) ==
    /\ process[w].pc = "returned"
    /\ process' = [process EXCEPT ![w] = exit(@, except_clauses(@.raised))]
    /\ UNCHANGED <<now, reminders, worker, publisher, faults, uuids, delivered, crashes, requests, patterns>>

(* --------------------------- specification ----------------------------- *)
\* The processes' objects: any configuration for a deployed process, and the
\* defaults (batch size 1, publishing disabled) for one that is not started.
Configured(S, default) ==
    { f \in [Workers -> S \cup {default}] : \A w \in Workers \ Deployed : f[w] = default }

InitialStores == [Reminders -> ReminderRows]

Init ==
    /\ now = 0
    /\ reminders \in InitialStores
    /\ worker \in Configured({NewWorker(n) : n \in 1..MaxBatchSize}, NewWorker(1))
    /\ publisher \in Configured({NewPublisher(e) : e \in BOOLEAN}, NewPublisher(FALSE))
    /\ faults = MaxFaults
    /\ uuids = 0
    /\ delivered = [s \in 0..NumReminders |-> 0]
    /\ crashes = 0
    /\ requests = [c \in Clients |-> NoRequest]
    /\ process = [w \in Workers |-> Started]
    /\ patterns = NoPatterns

Next ==
    \/ \E w \in Deployed : run(w)
    \/ \E w \in Deployed : while_running(w)
    \/ \E w \in Deployed : process_due_reminders(w)
    \/ \E w \in Deployed : _publish_reminder_fired(w)
    \/ \E w \in Deployed, o \in TransportOutcomes : _publish_event(w, o)
    \/ \E w \in Deployed : retry_sleep(w)
    \/ \E w \in Deployed : publish_returned(w)
    \/ \E w \in Deployed : commit_reminder(w)
    \/ \E w \in Deployed : after_cycle(w)
    \/ \E w \in Deployed : wait_for(w)
    \/ \E w \in Deployed : finally(w)
    \/ \E w \in Deployed : stop(w)
    \/ Tick

Spec == Init /\ [][Next]_vars

\* The scheduling the worker relies on: the event loop resumes the run()
\* coroutine whenever it can continue, every publish attempt gets an answer,
\* every backoff sleep ends and every store operation returns.  Nothing is
\* assumed about the clock, about stop requests or about run() being called.
Fairness ==
    \A w \in Deployed :
        /\ WF_vars(while_running(w))
        /\ WF_vars(process_due_reminders(w))
        /\ WF_vars(_publish_reminder_fired(w))
        /\ WF_vars(\E o \in TransportOutcomes : _publish_event(w, o))
        /\ WF_vars(retry_sleep(w))
        /\ WF_vars(publish_returned(w))
        /\ WF_vars(commit_reminder(w))
        /\ WF_vars(after_cycle(w))
        /\ WF_vars(wait_for(w))
        /\ WF_vars(finally(w))

\* The stores whose reminders are all pending and due when the worker starts.
DueInit ==
    /\ Init
    /\ \A r \in Reminders : reminders[r].status = "pending" /\ reminders[r].scheduled_time = 0

FairSpec == DueInit /\ [][Next]_vars /\ Fairness

\* The worker on a store that does not fail, with due pending reminders
\* (more than a batch of size 1 holds) and time passing: every wait of the
\* worker sees its timeout elapse.
LiveInit ==
    /\ now = 0
    /\ reminders = [r \in Reminders |-> Row("pending", 0, NULL, "int", DictChannels)]
    /\ worker \in Configured({NewWorker(n) : n \in 1..MaxBatchSize}, NewWorker(1))
    /\ publisher \in Configured({NewPublisher(e) : e \in BOOLEAN}, NewPublisher(FALSE))
    /\ faults = 0
    /\ uuids = 0
    /\ delivered = [s \in 0..NumReminders |-> 0]
    /\ crashes = 0
    /\ requests = [c \in Clients |-> NoRequest]
    /\ process = [w \in Workers |-> Started]
    /\ patterns = NoPatterns

LiveSpec == LiveInit /\ [][Next]_vars /\ Fairness /\ WF_vars(Tick)

\* The running worker on a store where the commit of the reminders of
\* Failing raises on every cycle and every other commit succeeds.  The
\* failing reminders are scheduled first; they are rows whose task_id is a
\* UUID, for which no envelope is built (the cycles they fail in repeat).
StarveInit ==
    /\ now = 0
    /\ reminders \in [Reminders -> ReminderRows]
    /\ \A r \in Failing : reminders[r] = Row("pending", 0, NULL, "uuid", DictChannels)
    /\ \A r \in Reminders \ Failing :
          reminders[r].status = "pending" /\ reminders[r].task_id = "int"
    /\ worker \in Configured({NewWorker(n) : n \in 1..MaxBatchSize}, NewWorker(1))
    /\ publisher \in Configured({NewPublisher(e) : e \in BOOLEAN}, NewPublisher(FALSE))
    /\ faults = 0
    /\ uuids = 0
    /\ delivered = [s \in 0..NumReminders |-> 0]
    /\ crashes = 0
    /\ requests = [c \in Clients |-> NoRequest]
    /\ process = [w \in Workers |-> Started]
    /\ patterns = NoPatterns

StarveNext ==
    \/ \E w \in Deployed : run(w)
    \/ \E w \in Deployed : while_running(w)
    \/ \E w \in Deployed : process_due_reminders(w)
    \/ \E w \in Deployed : _publish_reminder_fired(w)
    \/ \E w \in Deployed, o \in TransportOutcomes : _publish_event(w, o)
    \/ \E w \in Deployed : retry_sleep(w)
    \/ \E w \in Deployed : publish_returned(w)
    \/ \E w \in Deployed : worker[w].pc = "commit" /\ current(w) \notin Failing /\ commit_reminder(w)
    \/ \E w \in Deployed : commit_raises(w)
    \/ \E w \in Deployed : after_cycle(w)
    \/ \E w \in Deployed : wait_for(w)
    \/ Tick

\* The event loop runs every step of the worker that can be taken, and time
\* passes.
StarveFairness ==
    /\ \A w \in Deployed :
        /\ WF_vars(run(w))
        /\ WF_vars(while_running(w))
        /\ WF_vars(process_due_reminders(w))
        /\ WF_vars(_publish_reminder_fired(w))
        /\ WF_vars(\E o \in TransportOutcomes : _publish_event(w, o))
        /\ WF_vars(retry_sleep(w))
        /\ WF_vars(publish_returned(w))
        /\ WF_vars(worker[w].pc = "commit" /\ current(w) \notin Failing /\ commit_reminder(w))
        /\ WF_vars(commit_raises(w))
        /\ WF_vars(after_cycle(w))
        /\ WF_vars(wait_for(w))
    /\ WF_vars(Tick)

StarveSpec == StarveInit /\ [][StarveNext]_vars /\ StarveFairness

\* Uncoordinated worker instances polling the same store: every worker
\* process is started, the store does not fail, no stop is requested; the
\* publishers are in no-op mode (the default), where a publish call returns
\* at once.
MultiInit ==
    /\ now = 0
    /\ reminders = [r \in Reminders |-> Row("pending", 0, NULL, "int", DictChannels)]
    /\ worker \in [Workers -> {NewWorker(n) : n \in 1..MaxBatchSize}]
    /\ publisher = [w \in Workers |-> NewPublisher(FALSE)]
    /\ faults = 0
    /\ uuids = 0
    /\ delivered = [s \in 0..NumReminders |-> 0]
    /\ crashes = 0
    /\ requests = [c \in Clients |-> NoRequest]
    /\ process = [w \in Workers |-> Started]
    /\ patterns = NoPatterns

MultiNext ==
    \/ \E w \in Workers : run(w)
    \/ \E w \in Workers : while_running(w)
    \/ \E w \in Workers : process_due_reminders(w)
    \/ \E w \in Workers : _publish_reminder_fired(w)
    \/ \E w \in Workers, o \in TransportOutcomes : _publish_event(w, o)
    \/ \E w \in Workers : publish_returned(w)
    \/ \E w \in Workers : commit_reminder(w)
    \/ \E w \in Workers : after_cycle(w)
    \/ \E w \in Workers : wait_for(w)
    \/ Tick

MultiSpec == MultiInit /\ [][MultiNext]_vars

\* The worker with process crashes and restarts.
CrashNext ==
    \/ Next
    \/ \E w \in Deployed : crash(w)

CrashSpec == DueInit /\ [][CrashNext]_vars

\* The running worker (no stop is requested) with API clients snoozing and
\* cancelling reminders at any time, also while the worker is suspended in a
\* publish call.
RaceNext ==
    \/ \E w \in Deployed : run(w)
    \/ \E w \in Deployed : while_running(w)
    \/ \E w \in Deployed : process_due_reminders(w)
    \/ \E w \in Deployed : _publish_reminder_fired(w)
    \/ \E w \in Deployed, o \in TransportOutcomes : _publish_event(w, o)
    \/ \E w \in Deployed : retry_sleep(w)
    \/ \E w \in Deployed : publish_returned(w)
    \/ \E w \in Deployed : commit_reminder(w)
    \/ \E w \in Deployed : after_cycle(w)
    \/ \E w \in Deployed : wait_for(w)
    \/ \E c \in Clients, r \in Reminders, d \in 1..MaxSnooze : snooze_reminder(c, r, d)
    \/ \E c \in Clients : snooze_reminder_commit(c)
    \/ \E c \in Clients, r \in Reminders : cancel_reminder(c, r)
    \/ \E c \in Clients : cancel_reminder_commit(c)
    \/ Tick

\* The race is between the processes' store operations: the store itself
\* does not fail here.
RaceInit ==
    /\ now = 0
    /\ reminders \in InitialStores
    /\ \A r \in Reminders : reminders[r].status = "pending" /\ reminders[r].scheduled_time = 0
    /\ worker \in Configured({NewWorker(n) : n \in 1..MaxBatchSize}, NewWorker(1))
    /\ publisher \in Configured({NewPublisher(e) : e \in BOOLEAN}, NewPublisher(FALSE))
    /\ faults = 0
    /\ uuids = 0
    /\ delivered = [s \in 0..NumReminders |-> 0]
    /\ crashes = 0
    /\ requests = [c \in Clients |-> NoRequest]
    /\ process = [w \in Workers |-> Started]
    /\ patterns = NoPatterns

RaceSpec == RaceInit /\ [][RaceNext]_vars

\* The worker on stores holding every shape of the channel column: due
\* pending reminders, publishing enabled, no store faults.
ChannelInit ==
    /\ now = 0
    /\ reminders \in [Reminders -> { Row("pending", 0, NULL, "int", ch) : ch \in ChannelValues }]
    /\ worker = [w \in Workers |-> NewWorker(IF w \in Deployed THEN MaxBatchSize ELSE 1)]
    /\ publisher = [w \in Workers |-> NewPublisher(w \in Deployed)]
    /\ faults = 0
    /\ uuids = 0
    /\ delivered = [s \in 0..NumReminders |-> 0]
    /\ crashes = 0
    /\ requests = [c \in Clients |-> NoRequest]
    /\ process = [w \in Workers |-> Started]
    /\ patterns = NoPatterns

ChannelSpec == ChannelInit /\ [][Next]_vars

\* The worker process from the start of main(), with every environment.
MainInit ==
    /\ now = 0
    /\ reminders = [r \in Reminders |-> Row("pending", 0, NULL, "int", DictChannels)]
    /\ worker = [w \in Workers |-> NewWorker(IF w \in Deployed THEN MaxBatchSize ELSE 1)]
    /\ publisher \in Configured({NewPublisher(e) : e \in BOOLEAN}, NewPublisher(FALSE))
    /\ faults = MaxFaults
    /\ uuids = 0
    /\ delivered = [s \in 0..NumReminders |-> 0]
    /\ crashes = 0
    /\ requests = [c \in Clients |-> NoRequest]
    /\ process \in Configured({Process(e, d, n) : e, d, n \in BOOLEAN}, Process(FALSE, FALSE, FALSE))
    /\ patterns = NoPatterns

\* main() calls run() once; SIGINT and SIGTERM reach the handler run()
\* installed, which does what stop() does.
MainNext ==
    \/ \E w \in Deployed : main(w)
    \/ \E w \in Deployed : asyncio_run(w)
    \/ \E w \in Deployed : KeyboardInterrupt(w)
    \/ \E w \in Deployed : while_running(w)
    \/ \E w \in Deployed : process_due_reminders(w)
    \/ \E w \in Deployed : _publish_reminder_fired(w)
    \/ \E w \in Deployed, o \in TransportOutcomes : _publish_event(w, o)
    \/ \E w \in Deployed : retry_sleep(w)
    \/ \E w \in Deployed : publish_returned(w)
    \/ \E w \in Deployed : commit_reminder(w)
    \/ \E w \in Deployed : after_cycle(w)
    \/ \E w \in Deployed : wait_for(w)
    \/ \E w \in Deployed : finally(w)
    \/ \E w \in Deployed : process[w].pc = "running" /\ stop(w)
    \/ \E w \in Deployed : run_raises(w)
    \/ \E w \in Deployed : run_returns(w)
    \/ \E w \in Deployed : sys_exit(w)
    \/ Tick

MainSpec == MainInit /\ [][MainNext]_vars

\* The publisher on its own, driven by direct callers.
PubInit ==
    /\ now = 0
    /\ reminders = [r \in Reminders |-> Row("pending", 0, NULL, "int", DictChannels)]
    /\ worker = [w \in Workers |-> NewWorker(1)]
    /\ publisher \in Configured({ConfiguredPublisher(e, m) : e \in BOOLEAN, m \in 1..MaxRetriesConfig},
                                 NewPublisher(FALSE))
    /\ faults = 0
    /\ uuids = 0
    /\ delivered = [s \in 0..NumReminders |-> 0]
    /\ crashes = 0
    /\ requests = [c \in Clients |-> NoRequest]
    /\ process = [w \in Workers |-> Started]
    /\ patterns = NoPatterns

PubNext ==
    \/ \E p \in Deployed, t \in EventTypes, topic \in TopicArgs : api_publish(p, t, topic)
    \/ \E p \in Deployed : api_publish_task_event(p)
    \/ \E p \in Deployed : api_publish_reminder_event(p)
    \/ \E p \in Deployed : api_publish_notification_event(p)
    \/ \E p \in Deployed, o \in TransportOutcomes : _publish_event(p, o)
    \/ \E p \in Deployed : retry_sleep(p)
    \/ \E p \in Deployed : api_returned(p)
    \/ \E p \in Deployed : close_event_publisher(p)

PubSpec == PubInit /\ [][PubNext]_vars

\* The API answering requests on recurring patterns one after another,
\* while time passes; the table is empty at first.
RecurringInit ==
    /\ Init
    /\ \A w \in Workers : worker[w] = NewWorker(1) /\ publisher[w] = NewPublisher(FALSE)
    /\ \A r \in Reminders : reminders[r] = Row("pending", 0, NULL, "int", DictChannels)

RecurringNext ==
    \/ \E u \in Users, e \in EndDateArgs, m \in MaxOccurrencesArgs :
          create_recurring_pattern(u, e, m)
    \/ \E u \in Users, i \in PatternIds,
          e \in EndDateArgs \cup {UNSET}, m \in MaxOccurrencesArgs \cup {UNSET} :
          update_recurring_pattern(u, i, e, m)
    \/ \E u \in Users, i \in PatternIds : delete_recurring_pattern(u, i)
    \/ Tick

RecurringSpec == RecurringInit /\ [][RecurringNext]_vars

(* ------------------------------- claims -------------------------------- *)
\* The ids of the batch worker w fetched in its current cycle.
Ids(w) == { worker[w].due_reminders[i].id : i \in 1..Len(worker[w].due_reminders) }

\* The cycle of worker w has run to its end (process_due_reminders returned).
Completed(w) == worker[w].pc = "after_cycle" /\ worker[w].cycle = "completed"

\* The commit of reminder r failed in the current cycle of worker w.
CommitFailed(w, r) ==
    \E k \in 1..Len(worker[w].log) :
        /\ worker[w].log[k].ev = "commit"
        /\ worker[w].log[k].id = r
        /\ worker[w].log[k].result = "StoreError"

\* The publish entries of the current cycle's log for reminder r.
PublishResults(w, r) ==
    { worker[w].log[k].result : k \in { j \in 1..Len(worker[w].log) :
          worker[w].log[j].ev = "publish" /\ worker[w].log[j].id = r /\ worker[w].log[j].called } }

PublishErrors == {"RetryError", "EventPublisherError"}

\* C1: after a completed cycle, every reminder that was due when the cycle
\* queried the store and is in the batch is fired with a non-null fired_at,
\* unless its own commit failed -- whatever its publish did.
C1_DueRemindersFired ==
    \A w \in Workers :
        Completed(w) =>
            \A r \in worker[w].due_at_query :
                (r \in Ids(w) /\ ~CommitFailed(w, r)) =>
                    /\ reminders[r].status = "fired"
                    /\ reminders[r].fired_at # NULL

\* C1 witness: a completed cycle fired one reminder whose publish failed and
\* one whose publish succeeded.
C1_Witness ==
    \E w \in Workers :
        /\ Completed(w)
        /\ \E r1, r2 \in Ids(w) :
              /\ PublishResults(w, r1) \cap PublishErrors # {}
              /\ "ok" \in PublishResults(w, r2)
              /\ reminders[r1].status = "fired" /\ reminders[r1].fired_at # NULL
              /\ reminders[r2].status = "fired" /\ reminders[r2].fired_at # NULL

\* C2: a publish failure is swallowed: in every completed cycle each reminder
\* of the batch, in batch order, was handed to _publish_reminder_fired (the
\* publisher being called whenever the envelope could be built) and then had
\* its commit attempted, and a commit that did not fail left it fired.
C2_PublishFailureNotFatal ==
    \A w \in Workers :
        Completed(w) =>
            LET B == worker[w].due_reminders
                L == worker[w].log
            IN
            /\ Len(L) = 2 * Len(B)
            /\ \A i \in 1..Len(B) :
                  /\ L[2 * i - 1].ev = "publish"
                  /\ L[2 * i - 1].id = B[i].id
                  /\ L[2 * i - 1].called = (build_raises(reminders[B[i].id]) = "none")
                  /\ L[2 * i].ev = "commit"
                  /\ L[2 * i].id = B[i].id
                  /\ L[2 * i].result = "ok" => reminders[B[i].id].status = "fired"

\* C2 witness: the first publish of a batch of two exhausted its retries; the
\* reminder was committed and the second was published and committed.
C2_Witness ==
    \E w \in Workers :
        /\ Completed(w)
        /\ Len(worker[w].due_reminders) = 2
        /\ Len(worker[w].log) = 4
        /\ worker[w].log[1].called /\ worker[w].log[1].result = "RetryError"
        /\ worker[w].log[2].result = "ok"
        /\ worker[w].log[3].called /\ worker[w].log[3].result = "ok"
        /\ worker[w].log[4].result = "ok"

\* C3: a reminder scheduled later than the time of the cycle's query is not
\* in the batch, no publish call is made for it, and no step of the cycle
\* changes its row.
C3_NotDueUntouched ==
    [][ \A w \in Workers, r \in Reminders :
          ( /\ worker'[w].cycle \in {"running", "completed"}
            /\ reminders[r].scheduled_time > worker'[w].queried_at ) =>
              /\ r \notin Ids(w)'
              /\ reminders'[r] = reminders[r]
              /\ publisher'[w].call.state # "idle" => publisher'[w].call.event[1].subject # r
      ]_vars

\* C3 witness: a cycle that fired a reminder ended with another reminder,
\* scheduled after the query, still pending and never fired.
C3_Witness ==
    \E w \in Workers, r \in Reminders :
        /\ Completed(w)
        /\ worker[w].processed_count >= 1
        /\ reminders[r].scheduled_time > worker[w].queried_at
        /\ reminders[r].status = "pending"
        /\ reminders[r].fired_at = NULL

\* C4: a reminder that is fired or cancelled when a cycle queries the store
\* is not selected, no publish call is started for it, and its row never
\* changes again.
C4_TerminalNeverSelected ==
    [][ \A w \in Workers, r \in Reminders :
          reminders[r].status \in {"fired", "cancelled"} =>
              /\ worker[w].pc = "query" => r \notin Ids(w)'
              /\ reminders'[r] = reminders[r]
              /\ ( /\ publisher[w].call.state = "idle"
                   /\ publisher'[w].call.state # "idle" ) =>
                      publisher'[w].call.event[1].subject # r
      ]_vars

\* C4 witness: a later cycle is working on its batch while a reminder fired by
\* an earlier cycle and a cancelled reminder are outside the batch.
C4_Witness ==
    \E w \in Workers, r \in Reminders :
        /\ worker[w].pc = "commit"
        /\ r \notin Ids(w)
        /\ reminders[r].status = "fired"

\* C5: with D reminders due at the query and batch size N, the batch holds
\* min(D, N) of them, in ascending scheduled_time and none later than a due
\* reminder left out; the completed cycle handled exactly the batch and left
\* the other due reminders pending.
C5_BatchLimit ==
    \A w \in Workers :
        worker[w].cycle \in {"running", "completed"} =>
            LET B == worker[w].due_reminders
                D == worker[w].due_at_query
            IN
            /\ Len(B) = Min(Cardinality(D), worker[w].batch_size)
            /\ Cardinality(Ids(w)) = Len(B)
            /\ Ids(w) \subseteq D
            /\ \A i, j \in 1..Len(B) : i < j => B[i].scheduled_time <= B[j].scheduled_time
            /\ \A r \in D \ Ids(w) :
                  /\ \A i \in 1..Len(B) : B[i].scheduled_time <= reminders[r].scheduled_time
                  /\ reminders[r].status = "pending"
                  /\ reminders[r].fired_at = NULL
            /\ Completed(w) =>
                  worker[w].processed_count + worker[w].failed_count = Len(B)

\* C5 witness: two reminders were due, the batch size is one: the completed
\* cycle fired one and left the other pending.
C5_Witness ==
    \E w \in Workers :
        /\ Completed(w)
        /\ worker[w].batch_size = 1
        /\ Cardinality(worker[w].due_at_query) = 2
        /\ worker[w].processed_count = 1
        /\ \E r \in worker[w].due_at_query : reminders[r].status = "pending"

\* The transport outcomes of the attempts made so far by the call on p.
Outcomes(p) ==
    [ i \in 1..Len(publisher[p].call.posts) |-> publisher[p].call.posts[i].outcome ]

\* The call on publisher p has returned or raised.
Done(p) == publisher[p].call.state = "done"

\* Transport failures: a network error or a timeout.
TransportFailures == {"network", "timeout"}

\* The first n transport invocations of the call on p all failed.
FailedAttempts(p, n) ==
    /\ Len(Outcomes(p)) >= n
    /\ \A i \in 1..n : Outcomes(p)[i] \in TransportFailures

\* C6: with a transport that fails (network error or timeout) on the first
\* two attempts and succeeds on the third, the call does not end before the
\* third invocation, and returns success after exactly 3 invocations, having
\* waited 1 before the second attempt and 2 before the third.
C6_FailTwiceThenSucceed ==
    \A p \in Workers :
        /\ (Done(p) /\ Len(Outcomes(p)) \in {1, 2}) => ~FailedAttempts(p, Len(Outcomes(p)))
        /\ (FailedAttempts(p, 1) /\ Len(Outcomes(p)) >= 2) => publisher[p].call.waits[1] = 1
        /\ (FailedAttempts(p, 2) /\ Len(Outcomes(p)) >= 3) => publisher[p].call.waits[2] = 2
        /\ (FailedAttempts(p, 2) /\ Len(Outcomes(p)) >= 3 /\ Outcomes(p)[3] = "ok") =>
              /\ Done(p)
              /\ publisher[p].call.result = "ok"
              /\ Len(Outcomes(p)) = 3
              /\ publisher[p].call.waits = <<1, 2>>

\* C6 witness: a call returned success on its third invocation after two
\* transport failures.
C6_Witness ==
    \E p \in Workers :
        /\ Done(p)
        /\ FailedAttempts(p, 2)
        /\ Len(Outcomes(p)) = 3
        /\ Outcomes(p)[3] = "ok"
        /\ publisher[p].call.result = "ok"

\* C7: with a transport that fails with a network error or timeout on every
\* attempt, the call makes exactly 3 invocations and ends with an error: it
\* never makes a fourth and never reports success.
C7_AlwaysFailingStopsAtThree ==
    \A p \in Workers :
        /\ Len(Outcomes(p)) <= 3
        /\ (Len(Outcomes(p)) >= 1 /\ FailedAttempts(p, Len(Outcomes(p)))) =>
              /\ publisher[p].call.result # "ok"
              /\ Done(p) <=> Len(Outcomes(p)) = 3
              /\ Done(p) => publisher[p].call.result \in {"RetryError", "EventPublisherError"}

\* C7 witness: a call ended with an error after three failed invocations.
C7_Witness ==
    \E p \in Workers :
        /\ Done(p)
        /\ Len(Outcomes(p)) = 3
        /\ FailedAttempts(p, 3)
        /\ publisher[p].call.result # "ok"

\* C8 (the claim as stated): a non-2xx response is retried like a network
\* error: a call never ends on a non-2xx response before its third attempt.
C8_Non2xxRetried ==
    \A p \in Workers :
        ( /\ Done(p)
          /\ Len(Outcomes(p)) >= 1
          /\ Outcomes(p)[Len(Outcomes(p))] = "status" ) => Len(Outcomes(p)) = 3

\* C9 (the claim as stated): a call whose attempts all failed with a
\* retryable failure fails with EventPublisherError, the error class of every
\* other publish failure.
C9_ExhaustionRaisesPublisherError ==
    \A p \in Workers :
        ( /\ Done(p)
          /\ Len(Outcomes(p)) >= 1
          /\ FailedAttempts(p, Len(Outcomes(p))) ) =>
              publisher[p].call.result = "EventPublisherError"

\* C10: a disabled publisher never creates a transport client and never
\* invokes the transport, and every call on it, through publish or a
\* topic-specific entry point, ends with success.
C10_DisabledIsNoop ==
    \A p \in Workers :
        ~publisher[p].enabled =>
            /\ publisher[p]._client = "none"
            /\ publisher[p].call.posts = <<>>
            /\ publisher[p].call.state # "sleep"
            /\ Done(p) => publisher[p].call.result = "ok"

\* C10 witness: a call of the generic publish on a disabled publisher ended.
C10_Witness ==
    \E p \in Workers :
        /\ ~publisher[p].enabled
        /\ Done(p)
        /\ publisher[p].call.via = "publish"
        /\ publisher[p].call.result = "ok"
        /\ publisher[p].call.posts = <<>>

\* The part of an event type before its first "." (the whole type when it
\* has no ".").
PrefixBeforeDot(type) == IF type = <<>> \/ type[1] = "." THEN "" ELSE type[1]

\* The event type has the form <prefix>.<rest>.
Dotted(type) == Len(type) >= 2 /\ type[1] # "." /\ type[2] = "."

\* The topic the routing table gives for a prefix.
TopicOfPrefix(prefix) ==
    CASE prefix = "task"         -> "task-events"
      [] prefix = "reminder"     -> "reminder-events"
      [] prefix = "notification" -> "notification-events"
      [] OTHER                   -> "task-events"

\* The calls of publish() in flight or ended on publisher p.
ViaPublish(p) == publisher[p].call.state # "idle" /\ publisher[p].call.via = "publish"

\* C11 (the claim as stated): without a topic argument, publish resolves the
\* topic from the part of the event type before the first ".", a type with
\* no "." being its own prefix; an explicit topic is used unchanged.
C11_TopicFromPrefix ==
    \A p \in Workers :
        ViaPublish(p) =>
            publisher[p].call.topic =
                IF publisher[p].call.topic_arg # "none"
                THEN publisher[p].call.topic_arg
                ELSE TopicOfPrefix(PrefixBeforeDot(publisher[p].call.event[1].type))

\* C11 (amended): without a topic argument, publish resolves the topic of a
\* type of the form <prefix>.<rest> from its prefix (task, reminder,
\* notification; any other prefix gives task-events), and a type without a
\* "." always gives task-events, whatever it is; an explicit topic is used
\* unchanged.  The call is delivered to that topic on every attempt.
C11_TopicFromDottedPrefix ==
    \A p \in Workers :
        ViaPublish(p) =>
            LET c == publisher[p].call
                expected == IF c.topic_arg # "none" THEN c.topic_arg
                            ELSE IF Dotted(c.event[1].type)
                                 THEN TopicOfPrefix(PrefixBeforeDot(c.event[1].type))
                                 ELSE "task-events"
            IN
            /\ c.topic = expected
            /\ \A i \in 1..Len(c.posts) : c.posts[i].topic = expected

\* C11 witness: publish() without a topic sent a reminder.fired event to
\* reminder-events.
C11_Witness ==
    \E p \in Workers :
        /\ ViaPublish(p)
        /\ publisher[p].call.topic_arg = "none"
        /\ publisher[p].call.event[1].type = <<"reminder", ".", "fired">>
        /\ Len(publisher[p].call.posts) >= 1
        /\ publisher[p].call.posts[1].topic = "reminder-events"

\* The pcs of run() inside process_due_reminders.
InCycle == {"query", "item", "publishing", "commit"}

BatchHandled(w) ==
    LET B == worker[w].due_reminders
        L == worker[w].log
    IN
    /\ Len(L) = 2 * Len(B)
    /\ \A i \in 1..Len(B) :
          /\ L[2 * i - 1].ev = "publish" /\ L[2 * i - 1].id = B[i].id
          /\ L[2 * i].ev = "commit" /\ L[2 * i].id = B[i].id
          /\ L[2 * i].result = "ok" =>
                reminders[B[i].id].status = "fired" /\ reminders[B[i].id].fired_at # NULL

\* C13: a stop request issued while a cycle is in flight does not interrupt
\* it: the worker stays in the cycle until every reminder of the fetched
\* batch has been published and committed, and from the end of that cycle it
\* goes to `finally` without entering the wait or starting another cycle.
C13_StopLetsCycleFinish ==
    [][ \A w \in Workers :
          ~worker[w]._running =>
              /\ worker[w].pc \in InCycle =>
                    /\ worker'[w].pc \in InCycle \cup {"after_cycle"}
                    /\ worker'[w].due_reminders # <<>> =>
                          worker'[w].due_reminders = worker[w].due_reminders
                             \/ worker[w].pc = "query"
                    /\ (worker'[w].pc = "after_cycle" /\ worker'[w].due_reminders # <<>>) =>
                          BatchHandled(w)'
              /\ worker[w].pc = "after_cycle" => worker'[w].pc \in {"after_cycle", "loop"}
              /\ (worker[w].pc = "loop" /\ worker[w].stop_requested_at \in InCycle) =>
                    worker'[w].pc \in {"loop", "closing"}
      ]_vars

\* C13 witness: a stop was requested during the first publish of a batch of
\* two; the cycle ended with both reminders published and fired.
C13_Witness ==
    \E w \in Workers :
        /\ worker[w].stop_requested_at = "publishing"
        /\ worker[w].pc = "after_cycle"
        /\ Len(worker[w].due_reminders) = 2
        /\ worker[w].processed_count = 2
        /\ BatchHandled(w)

\* C14: once a stop has been requested while run() is executing, in a cycle
\* or in the wait, run() eventually returns (the worker is Stopped), given
\* that publish calls and store operations terminate.
C14_StopEventuallyStops ==
    \A w \in Workers :
        (worker[w].pc # "stopped" /\ ~worker[w]._running) ~> (worker[w].pc = "stopped")

\* C14 witness: run() has returned after a stop requested during a commit.
C14_Witness ==
    \E w \in Workers :
        /\ worker[w].stop_requested_at = "commit"
        /\ worker[w].pc = "stopped"
        /\ ~worker[w]._running

\* C15: a failure of the due-reminder query (or of opening the session)
\* ends only that cycle: the failing step publishes nothing and changes no
\* reminder, the worker stays Running and goes through the wait to the next
\* query; the loop is left only after a stop request, whatever a cycle raised.
C15_QueryFailureAbortsOnlyCycle ==
    [][ \A w \in Workers :
          /\ (worker[w].pc = "query" /\ worker'[w].cycle = "query_failed") =>
                /\ reminders' = reminders
                /\ publisher' = publisher
                /\ delivered' = delivered
                /\ worker'[w].pc = "after_cycle"
                /\ worker'[w].log = <<>> /\ worker'[w].due_reminders = <<>>
                /\ worker'[w]._running = worker[w]._running
          /\ (worker[w].pc = "after_cycle" /\ worker[w]._running) =>
                worker'[w].pc \in {"after_cycle", "waiting"}
          /\ (worker[w].pc = "waiting" /\ worker[w]._running) =>
                worker'[w].pc \in {"waiting", "loop"}
          /\ (worker[w].pc = "loop" /\ worker[w]._running) =>
                worker'[w].pc \in {"loop", "query"}
          /\ (worker'[w].pc = "closing" /\ worker[w].pc # "closing") =>
                ~worker[w]._running
          /\ (worker[w]._running /\ ~worker'[w]._running) =>
                worker'[w].stop_requested_at = worker[w].pc
      ]_vars

\* C15 witness: the cycle after a failed query is running with a batch, the
\* worker never having been stopped.
C15_Witness ==
    \E w \in Workers :
        /\ worker[w].prev.cycle = "query_failed"
        /\ worker[w].stop_requested_at = "none"
        /\ worker[w]._running
        /\ worker[w].pc = "item"
        /\ worker[w].due_reminders # <<>>

\* The step of worker w is a commit of reminder r that failed.
CommitFails(w, r) ==
    /\ worker[w].pc = "commit"
    /\ current(w) = r
    /\ Len(worker'[w].log) = Len(worker[w].log) + 1
    /\ worker'[w].log[Len(worker'[w].log)].result = "StoreError"

\* What a failed commit of r leaves behind: a failure counted, the row pending
\* with fired_at null.
FailedCommitKeepsPending(w, r) ==
    CommitFails(w, r) =>
        /\ worker'[w].failed_count = worker[w].failed_count + 1
        /\ worker'[w].processed_count = worker[w].processed_count
        /\ reminders'[r].status = "pending"
        /\ reminders'[r].fired_at = NULL
        /\ reminders'[r] = reminders[r]

\* The step of worker w is a successful due-reminder query.
QueryReturns(w) ==
    worker[w].pc = "query" /\ worker'[w].cycle \in {"running", "completed"}

\* C16 (the claim as stated): a reminder whose commit failed is counted as
\* failed, stays pending with fired_at null, and is in the batch of the next
\* cycle's due-reminder query.
C16_FailedCommitSelectedNext ==
    [][ \A w \in Workers, r \in Reminders :
          /\ FailedCommitKeepsPending(w, r)
          /\ (QueryReturns(w) /\ r \in worker[w].prev.uncommitted) => r \in Ids(w)'
      ]_vars

\* C16 (amended): a reminder whose commit failed is counted as failed, stays
\* pending with fired_at null, and matches the next cycle's due-reminder query;
\* it is in that cycle's batch unless the batch is full of due reminders
\* scheduled no later than it.
C16_FailedCommitDueNext ==
    [][ \A w \in Workers, r \in Reminders :
          /\ FailedCommitKeepsPending(w, r)
          /\ (QueryReturns(w) /\ r \in worker[w].prev.uncommitted) =>
                /\ r \in worker'[w].due_at_query
                /\ \/ r \in Ids(w)'
                   \/ /\ Len(worker'[w].due_reminders) = worker[w].batch_size
                      /\ \A i \in 1..Len(worker'[w].due_reminders) :
                            worker'[w].due_reminders[i].scheduled_time
                               <= reminders[r].scheduled_time
      ]_vars

\* C16 witness: the cycle after a failed commit has the reminder, still
\* pending, in its batch again.
C16_Witness ==
    \E w \in Workers, r \in Reminders :
        /\ r \in worker[w].prev.uncommitted
        /\ worker[w].cycle = "running"
        /\ r \in Ids(w)
        /\ reminders[r].status = "pending"
        /\ reminders[r].fired_at = NULL

\* C17: a commit failure on the K-th reminder of a batch changes no stored
\* row, so reminders 1..K-1 committed in the cycle stay fired, and the loop
\* goes on with reminder K+1: when the cycle ends, every reminder of the
\* batch has been published and had its commit.
C17_CommitIsolation ==
    [][ \A w \in Workers, r \in Reminders :
          /\ CommitFails(w, r) =>
                /\ reminders' = reminders
                /\ \A i \in 1..(worker[w].idx - 1) :
                      worker[w].log[2 * i].result = "ok" =>
                          reminders'[worker[w].due_reminders[i].id].status = "fired"
                /\ worker'[w].due_reminders = worker[w].due_reminders
                /\ worker[w].idx < Len(worker[w].due_reminders) =>
                      worker'[w].pc = "item" /\ worker'[w].idx = worker[w].idx + 1
          /\ ( /\ worker[w].pc \in InCycle
               /\ worker'[w].pc = "after_cycle"
               /\ worker'[w].due_reminders # <<>> ) => BatchHandled(w)'
      ]_vars

\* C17 witness: the commit of the first reminder of a batch of two failed; the
\* second was published and committed in the same cycle.
C17_Witness ==
    \E w \in Workers :
        /\ Completed(w)
        /\ Len(worker[w].due_reminders) = 2
        /\ Len(worker[w].log) = 4
        /\ worker[w].log[2].result = "StoreError"
        /\ worker[w].log[3].ev = "publish"
        /\ worker[w].log[4].result = "ok"
        /\ reminders[worker[w].due_reminders[1].id].status = "pending"
        /\ reminders[worker[w].due_reminders[2].id].status = "fired"

\* A stored row is whole: fired with fired_at set, or not fired with fired_at
\* null.
Whole(row) ==
    \/ row.status = "fired" /\ row.fired_at # NULL
    \/ row.status \in {"pending", "cancelled"} /\ row.fired_at = NULL

\* The step is a crash of worker w.
Crashes(w) == crashes' = crashes + 1 /\ worker[w].pc # "stopped"

\* C18: with the worker crashing at any point, every stored reminder is
\* always either fired with a non-null fired_at or not fired with fired_at
\* null; the crash itself changes no row; and a fired reminder is never
\* selected, published or modified again, before or after a restart.
C18_CrashLeavesRowsWhole ==
    [][ /\ \A r \in Reminders : Whole(reminders[r]) /\ Whole(reminders'[r])
        /\ \A w \in Workers : Crashes(w) => reminders' = reminders
        /\ \A w \in Workers, r \in Reminders :
              reminders[r].status = "fired" =>
                  /\ reminders'[r] = reminders[r]
                  /\ delivered'[r] = delivered[r]
                  /\ QueryReturns(w) => r \notin Ids(w)'
      ]_vars

\* C18 witness: a worker with batch size 2 crashed in its first cycle between
\* the commits of two reminders due together; restarted, it is handling the
\* second, the first staying fired outside the batch.
C18_Witness ==
    \E w \in Workers, r1, r2 \in Reminders :
        /\ crashes = 1 /\ faults = MaxFaults
        /\ worker[w].batch_size = 2
        /\ worker[w].prev.cycle = "crashed"
        /\ reminders[r1].scheduled_time = 0 /\ reminders[r2].scheduled_time = 0
        /\ reminders[r1].status = "fired" /\ reminders[r1].fired_at # NULL
        /\ reminders[r2].status = "pending" /\ reminders[r2].fired_at = NULL
        /\ worker[w].pc = "item"
        /\ Ids(w) = {r2}

\* The reminder r was left by a crash of worker w with its publish succeeded
\* and its commit not done.
CrashedUncommitted(w, r) ==
    worker[w].prev.cycle = "crashed" /\ r \in worker[w].prev.uncommitted

\* C19 (the claim as stated): after a crash between a reminder's successful
\* publish and its commit the reminder is still pending, and the cycle after
\* the restart handles it again, publishing a second event.
C19_NextCycleRepublishes ==
    [][ \A w \in Workers, r \in Reminders :
          /\ (Crashes(w) /\ CrashedUncommitted(w, r)') =>
                /\ reminders'[r].status = "pending"
                /\ publisher[w].enabled => delivered'[r] >= 1
          /\ (QueryReturns(w) /\ CrashedUncommitted(w, r)) => r \in Ids(w)'
      ]_vars

\* C19 (amended): after a crash between a reminder's successful publish and
\* its commit the reminder is still pending with fired_at null and matches
\* the next cycle's due-reminder query; it is in that cycle's batch unless the
\* batch is full of due reminders scheduled no later; and the worker, when it
\* handles the reminder again, makes a new publish call with a new envelope
\* id, although the gateway (publishing enabled) has already accepted an
\* event for it.
C19_CrashRepublishes ==
    [][ \A w \in Workers, r \in Reminders :
          /\ (Crashes(w) /\ CrashedUncommitted(w, r)') =>
                /\ reminders'[r].status = "pending"
                /\ reminders'[r].fired_at = NULL
                /\ publisher[w].enabled => delivered'[r] >= 1
          /\ (QueryReturns(w) /\ CrashedUncommitted(w, r)) =>
                /\ r \in worker'[w].due_at_query
                /\ \/ r \in Ids(w)'
                   \/ /\ Len(worker'[w].due_reminders) = worker[w].batch_size
                      /\ \A i \in 1..Len(worker'[w].due_reminders) :
                            worker'[w].due_reminders[i].scheduled_time
                               <= reminders[r].scheduled_time
          /\ ( /\ CrashedUncommitted(w, r)
               /\ worker[w].pc = "item" /\ current(w) = r
               /\ worker'[w].pc \notin {"item", "stopped"} ) =>
                /\ worker'[w].pc = "publishing"
                /\ publisher'[w].call.event[1].subject = r
                /\ publisher'[w].call.event[1].id = uuids + 1
                /\ publisher'[w].call.event[1].id > delivered[r]
      ]_vars

\* C19 witness: the gateway has accepted a second reminder.fired event for a
\* reminder whose first event it accepted before the crash.
C19_Witness ==
    \E w \in Workers, r \in Reminders :
        /\ CrashedUncommitted(w, r)
        /\ faults = MaxFaults
        /\ worker[w].pc = "publishing"
        /\ current(w) = r
        /\ delivered[r] = 2
        /\ reminders[r].status = "pending"

\* C20 (the claim as stated): under any interleaving of worker cycles with
\* cancel and snooze requests, a reminder's status only ever changes from
\* pending to fired or from pending to cancelled: fired and cancelled are
\* terminal, and a cancelled reminder never becomes fired.
C20_StatusOneDirectional ==
    [][ \A r \in Reminders :
          reminders'[r].status # reminders[r].status =>
              /\ reminders[r].status = "pending"
              /\ reminders'[r].status \in {"fired", "cancelled"}
      ]_vars

\* C21: in every reachable store state, under any interleaving of worker
\* cycles with cancel and snooze requests, a reminder has a non-null fired_at
\* if and only if its status is fired.
C21_FiredAtIffFired ==
    \A r \in Reminders : (reminders[r].fired_at # NULL) <=> (reminders[r].status = "fired")

\* C22: every transport attempt made within one publish call carries the
\* id and the timestamp the envelope got when it was constructed, and the
\* envelope a new publish call is made with has an id no earlier envelope had.
C22_SameEnvelopeEveryAttempt ==
    [][ \A p \in Deployed :
          LET c == publisher'[p].call IN
          /\ \A i \in 1..Len(c.posts) :
                c.posts[i].id = c.event[1].id /\ c.posts[i].time = c.event[1].time
          /\ (publisher[p].call.state = "idle" /\ c.state # "idle")
                => c.event[1].id \notin 1..uuids ]_vars

\* A second firing's envelope is sent for the second time, after the clock
\* has moved on since it was built.
C22_Witness ==
    \E p \in Deployed :
        LET c == publisher[p].call IN
        /\ c.caller = "worker"
        /\ Len(c.posts) >= 2
        /\ c.event[1].id >= 2
        /\ now > c.event[1].time

\* The stored channel value is absent or malformed: no "channels" key, not
\* a dict or a list, or a "channels" value that is not a list of strings.
AbsentOrMalformed(nc) ==
    \/ nc.shape = "none"
    \/ nc.shape = "dict" /\ (~nc.has_key \/ ~nc.is_list)

\* The worker handles the current reminder of its batch: the step from the
\* start of _publish_reminder_fired.
Builds(w) == worker[w].pc = "item" /\ worker'[w].pc # "item"

\* C23: every reminder.fired envelope handed to the transport carries a
\* non-empty channel list; a reminder whose stored channels are absent or
\* malformed is published with the single default channel; building the
\* payload with an empty channel list fails with a validation error.
C23_NonEmptyChannels ==
    [][ \A w \in Deployed :
          LET c == publisher'[w].call
              nc == reminders[current(w)].notification_channels
              wk == worker'[w]
          IN
          /\ (c.state # "idle" /\ c.event[1].type = <<"reminder", ".", "fired">>)
                => c.event[1].channels # <<>>
          /\ (Builds(w) /\ AbsentOrMalformed(nc))
                => /\ c.state = "attempt"
                   /\ c.event[1].channels = <<"email">>
          /\ (Builds(w) /\ extract_channels(nc).is_list /\ extract_channels(nc).items = <<>>)
                => /\ c.state = "idle"
                   /\ wk.log[Len(wk.log)].result = "ValidationError" ]_vars

\* Worker w never started a cycle: it is as main() built it.
NoCycleStarted(w) ==
    /\ worker[w].pc = "stopped"
    /\ worker[w].queried_at = NULL
    /\ worker[w].prev.cycle = "none"
    /\ ~worker[w]._running

\* C24: the exit code is 0 when the worker is disabled by configuration or
\* after a clean stop-initiated shutdown, and 1 when the store connection
\* string is missing or an error escapes the run; a disabled or unconfigured
\* process exits before any cycle starts.
C24_ExitCodes ==
    \A w \in Deployed :
        LET proc == process[w] IN
        proc.pc = "exited" =>
            /\ ~proc.worker_enabled => proc.exit_code = 0 /\ NoCycleStarted(w)
            /\ (proc.worker_enabled /\ ~proc.database_url)
                  => proc.exit_code = 1 /\ NoCycleStarted(w)
            /\ (proc.worker_enabled /\ proc.database_url) =>
                  /\ (proc.raised = "none" /\ worker[w]._shutdown_event) => proc.exit_code = 0
                  /\ proc.raised \in {"Exception", "ValueError"} => proc.exit_code = 1

\* A process has exited with 1 because an error left the run, after the
\* worker had completed a cycle.
C24_Witness ==
    \E w \in Deployed :
        /\ process[w].pc = "exited"
        /\ process[w].raised = "Exception"
        /\ process[w].exit_code = 1
        /\ worker[w].prev.cycle = "completed"

\* C25: the number of transport attempts of one publish call never exceeds
\* the publisher's configured max retry attempts, and with a transport that
\* fails on every attempt exactly that many attempts are made.
C25_AttemptsBoundedByMaxRetries ==
    \A p \in Deployed :
        /\ Len(Outcomes(p)) <= publisher[p].max_retries
        /\ (Done(p) /\ Len(Outcomes(p)) >= 1 /\ FailedAttempts(p, Len(Outcomes(p))))
              => Len(Outcomes(p)) = publisher[p].max_retries

\* C26: the event type uniquely determines the payload shape: no envelope
\* variant of the event model has the type string of an envelope handed to
\* the publisher while carrying a different payload shape.
C26_TypeDeterminesShape ==
    \A p \in Deployed :
        LET c == publisher[p].call IN
        (c.state # "idle" /\ c.event[1].data # "Any") =>
            \A b \in EventClasses :
                b.type = c.event[1].type => DataFields(b.data) = DataFields(c.event[1].data)

\* C27: every reminder the worker marks fired had the publisher invoked
\* with a reminder.fired envelope for it earlier in the same cycle: no
\* status=fired commit without an envelope handed to the publisher.
C27_PublishBeforeFired ==
    \A w \in Deployed :
        LET log == worker[w].log IN
        \A k \in 1..Len(log) :
            (log[k].ev = "commit" /\ log[k].result = "ok") =>
                \E j \in 1..(k - 1) :
                    log[j].ev = "publish" /\ log[j].id = log[k].id /\ log[j].called

\* C28: in every run of the worker, also one started after stop() was
\* called on the same object, while no stop has been requested during that
\* run the wait between cycles does not end before a full poll interval has
\* elapsed since the previous cycle ended.
C28_FullIntervalBetweenCycles ==
    [][ \A w \in Deployed :
          (/\ worker[w].pc = "waiting"
           /\ worker'[w].pc = "loop"
           /\ worker[w].stop_requested_at = "none"
           /\ worker'[w].stop_requested_at = "none")
              => worker[w].waited >= PollInterval ]_vars

\* The cycle of worker wk has handled its batch in order up to the current
\* reminder: the log holds, for each reminder of the batch in turn, its
\* publish and then its commit.
HandledInOrder(wk) ==
    /\ Len(wk.log) <= 2 * Len(wk.due_reminders)
    /\ \A k \in 1..Len(wk.log) :
          /\ wk.log[k].id = wk.due_reminders[(k + 1) \div 2].id
          /\ wk.log[k].ev = IF k % 2 = 1 THEN "publish" ELSE "commit"

\* C29: within a cycle reminders are handled one after another in ascending
\* scheduled_time order; at most one publish call is in flight, made for the
\* current reminder after the commit (or commit failure) of every earlier
\* one; a cycle starts only when the previous one has ended.
C29_SequentialCycle ==
    [][ \A w \in Deployed :
          LET wk == worker'[w]
              c == publisher'[w].call
          IN
          /\ \A i, j \in 1..Len(wk.due_reminders) :
                i < j => wk.due_reminders[i].scheduled_time <= wk.due_reminders[j].scheduled_time
          /\ HandledInOrder(wk)
          /\ (c.state # "idle" /\ c.caller = "worker") =>
                /\ wk.pc = "publishing"
                /\ c.event[1].subject = wk.due_reminders[wk.idx].id
                /\ Len(wk.log) = 2 * (wk.idx - 1)
          /\ (wk.pc = "query" /\ worker[w].pc # "query") =>
                /\ worker[w].pc = "loop"
                /\ worker[w].cycle = "none"
                /\ worker[w].log = <<>>
                /\ publisher[w].call.state = "idle" ]_vars

\* The second reminder of a batch, scheduled later than the first, is being
\* published after the first was committed.
C29_Witness ==
    \E w \in Deployed :
        LET wk == worker[w] IN
        /\ Len(wk.due_reminders) = 2
        /\ wk.due_reminders[1].scheduled_time < wk.due_reminders[2].scheduled_time
        /\ wk.pc = "publishing"
        /\ wk.idx = 2
        /\ Len(wk.log) = 2
        /\ Len(publisher[w].call.posts) >= 1

\* C30: while the worker keeps running, on a store whose queries and
\* commits succeed and without cancel or snooze requests, every pending
\* reminder whose scheduled_time has passed is eventually fired, also when
\* more reminders are due than a batch holds.
C30_DueEventuallyFired ==
    \A w \in Deployed : \A r \in Reminders :
        (/\ worker[w]._running
         /\ reminders[r].status = "pending"
         /\ reminders[r].scheduled_time <= now)
            ~> (reminders[r].status = "fired" \/ ~worker[w]._running)

\* A reminder the first cycle's batch of size 1 left out has been fired by a
\* later cycle of the same run.
C30_Witness ==
    \E w \in Deployed : \E r \in Reminders :
        /\ worker[w]._running
        /\ worker[w].batch_size = 1
        /\ worker[w].prev.cycle = "completed"
        /\ worker[w].pc = "after_cycle"
        /\ worker[w].log # <<>>
        /\ worker[w].log[Len(worker[w].log)] = [ev |-> "commit", id |-> r, called |-> TRUE, result |-> "ok"]
        /\ \A q \in Reminders : reminders[q].status = "fired"

\* C31: the store session is scoped to one cycle: at most one session is
\* open at a time, only between the cycle's query and its end, and none is
\* open once the cycle has ended by any path (normal end, zero due rows,
\* query failure), in particular during the inter-cycle wait.
C31_SessionScopedToCycle ==
    \A w \in Deployed :
        /\ worker[w].session \in {0, 1}
        /\ worker[w].session = 1 <=> worker[w].pc \in {"item", "publishing", "commit"}

\* The worker is in its inter-cycle wait after a cycle whose query failed.
C31_Witness ==
    \E w \in Deployed :
        /\ worker[w].pc = "waiting"
        /\ worker[w].prev.cycle = "query_failed"
        /\ worker[w].session = 0

\* C32: the transport client does not exist at construction and is created
\* only by an enabled publish attempt; later attempts reuse it, so at most
\* one exists; when run() has returned, by a stop or by an escaping error,
\* it has been closed and no transport invocation follows; closing a closed
\* or never opened client changes nothing.
C32_ClientLifecycle ==
    [][ \A w \in Deployed :
          LET pub == publisher[w]
              after == publisher'[w]
          IN
          /\ after.clients <= 1
          /\ after.clients = 1 <=> after._client # "none"
          /\ process'[w].pc \in {"main", "asyncio.run"} => after._client = "none"
          /\ (pub._client = "none" /\ after._client # "none") =>
                /\ pub.enabled
                /\ Len(after.call.posts) = Len(pub.call.posts) + 1
          /\ process'[w].pc \in {"returned", "exited"} =>
                /\ after._client = "none"
                /\ after.clients = 0
                /\ after.call.posts = pub.call.posts
          /\ (worker[w].pc = "closing" /\ worker'[w].pc = "stopped" /\ pub._client = "none")
                => after = pub ]_vars

\* run() was left by an escaping error after the worker's publisher had
\* delivered an event: the client it had created is closed.
C32_Witness ==
    \E w \in Deployed :
        /\ process[w].pc = "returned"
        /\ process[w].raised = "Exception"
        /\ \E r \in Reminders : delivered[r] >= 1
        /\ publisher[w]._client = "none"
        /\ publisher[w].clients = 0

\* C33: the worker's only mutation of the store is setting status=fired and
\* fired_at on a reminder its query selected: scheduled_time, task and user
\* reference and channel list stay as they are, and no reminder is created
\* or deleted.
C33_WorkerOnlyMarksFired ==
    [][ /\ DOMAIN reminders' = DOMAIN reminders
        /\ \A r \in Reminders :
              reminders'[r] # reminders[r] =>
                  /\ reminders'[r] = [reminders[r] EXCEPT !.status = "fired", !.fired_at = now]
                  /\ \E w \in Deployed :
                        /\ worker[w].pc = "commit"
                        /\ current(w) = r
                        /\ r \in worker[w].due_at_query ]_vars

\* A reminder scheduled for an earlier time has been marked fired.
C33_Witness ==
    \E r \in Reminders :
        /\ reminders[r].status = "fired"
        /\ reminders[r].fired_at > reminders[r].scheduled_time
        /\ reminders[r].task_id = "uuid"

\* C34: at the end of every completed cycle found = fired + failed, found
\* being the number of rows the due-reminder query returned, at most the
\* batch size; a cycle that finds zero rows makes no publish call and no
\* store mutation, is a completed cycle, and is followed by the inter-cycle
\* wait like any other.
C34_CountsAddUp ==
    [][ \A w \in Deployed :
          LET wk == worker[w]
              after == worker'[w]
          IN
          /\ (after.pc = "after_cycle" /\ after.cycle = "completed") =>
                /\ Len(after.due_reminders) = after.processed_count + after.failed_count
                /\ Len(after.due_reminders) <= after.batch_size
          /\ (wk.pc = "query" /\ after.pc # "query" /\ after.due_reminders = <<>>
              /\ after.cycle # "query_failed") =>
                /\ after.pc = "after_cycle"
                /\ after.cycle = "completed"
                /\ after.processed_count = 0 /\ after.failed_count = 0
                /\ reminders' = reminders
                /\ publisher' = publisher
                /\ uuids' = uuids
          /\ (wk.pc = "after_cycle" /\ after.pc # "after_cycle" /\ wk._running) =>
                /\ after.pc = "waiting"
                /\ after.waited = 0 ]_vars

\* A cycle of two reminders completed with one fired and one failed.
C34_Witness ==
    \E w \in Deployed :
        /\ Completed(w)
        /\ Len(worker[w].due_reminders) = 2
        /\ worker[w].processed_count = 1
        /\ worker[w].failed_count = 1

\* C35: a snooze or cancel request on a reminder that is not pending leaves
\* the stored reminder unchanged: cancel is idempotent, and the
\* scheduled_time of a fired or cancelled reminder is never moved by snooze.
C35_NonPendingUnchanged ==
    [][ \A c \in Clients :
          (/\ requests[c].handler # "none"
           /\ requests'[c].handler = "none"
           /\ reminders[requests[c].id].status # "pending")
              => reminders' = reminders ]_vars

\* The worker instances that have been started.
Instances == { w \in Workers : worker[w]._running }

\* The publish calls made so far for reminder r by the workers in S.
RECURSIVE PublishCalls(_, _)
PublishCalls(S, r) ==
    IF S = {} THEN 0
    ELSE LET w == CHOOSE x \in S : TRUE IN
         worker[w].published[r] + PublishCalls(S \ {w}, r)

\* C36: with k uncoordinated worker instances on the same store, no crashes
\* and every commit succeeding, a reminder receives at most one publish call
\* per instance, at most k in all, over any number of cycles; with a single
\* instance at most one.
C36_AtMostOnePublishPerInstance ==
    \A r \in Reminders :
        /\ \A w \in Workers : worker[w].published[r] <= 1
        /\ PublishCalls(Workers, r) <= Cardinality(Instances)

\* Both instances have made a publish call for the same reminder and have
\* gone through a later cycle.
C36_Witness ==
    \E r \in Reminders :
        /\ \A w \in Workers : worker[w].published[r] = 1
        /\ \A w \in Workers : worker[w].pc = "waiting" /\ worker[w].prev.cycle = "completed"
        /\ \A q \in Reminders : reminders[q].status = "fired"

\* C37: in every reachable store state, under any interleaving of worker
\* cycles with snooze requests, a reminder with status fired has a fired_at
\* that is not earlier than its scheduled_time.
C37_FiredNotBeforeScheduled ==
    \A r \in Reminders :
        reminders[r].status = "fired" => reminders[r].fired_at >= reminders[r].scheduled_time

\* C38: reminders whose commit fails on every cycle do not starve the
\* others: while the worker keeps running, every other pending due reminder
\* is eventually fired, however many failing reminders are scheduled earlier.
C38_NoStarvation ==
    \A r \in Reminders \ Failing :
        (reminders[r].status = "pending" /\ reminders[r].scheduled_time <= now)
            ~> (reminders[r].status = "fired")

\* C39: a publish attempt that fails with an unexpected (non-transport)
\* error is not retried: it is the last attempt of its call, which fails
\* with EventPublisherError; when it is the first attempt the call has made
\* exactly one.
C39_UnexpectedNotRetried ==
    \A p \in Workers :
        LET c == publisher[p].call IN
        \A i \in 1..Len(c.posts) :
            c.posts[i].outcome = "unexpected" =>
                /\ i = Len(c.posts)
                /\ c.state = "done"
                /\ c.result = "EventPublisherError"

\* A call ended by an unexpected error on its first attempt.
C39_Witness ==
    \E p \in Workers :
        LET c == publisher[p].call IN
        /\ c.state = "done"
        /\ c.result = "EventPublisherError"
        /\ Len(c.posts) = 1
        /\ c.posts[1].outcome = "unexpected"

\* The stored pattern has both end conditions set.
HasBoth(pattern) ==
    pattern.exists /\ pattern.end_date # NULL /\ pattern.max_occurrences # NULL

\* The pattern the request answered last would have stored, had it been
\* carried out on the table as it was.
Requested(table, last) ==
    LET over(stored, sent) == IF sent = UNSET THEN stored ELSE sent IN
    IF last.handler = "create_recurring_pattern"
    THEN [exists |-> TRUE, end_date |-> last.end_date, max_occurrences |-> last.max_occurrences]
    ELSE [exists |-> table[last.id].exists,
          end_date |-> over(table[last.id].end_date, last.end_date),
          max_occurrences |-> over(table[last.id].max_occurrences, last.max_occurrences)]

\* C40: after any sequence of create, update and delete requests no stored
\* pattern has both end_date and max_occurrences set, and a create or update
\* that would produce both is rejected and leaves the table unchanged.
C40_EndConditionsExclusive ==
    [][ /\ \A i \in PatternIds : ~HasBoth(patterns'.table[i])
        /\ ( /\ patterns'.last # patterns.last
             /\ patterns'.last.handler \in {"create_recurring_pattern", "update_recurring_pattern"}
             /\ HasBoth(Requested(patterns.table, patterns'.last)) )
              => /\ patterns'.last.status_code >= 400
                 /\ patterns'.table = patterns.table ]_vars

\* An update that sent only max_occurrences for a pattern stored with an
\* end_date was answered 400, and the pattern still has its end_date alone.
C40_Witness ==
    LET last == patterns.last IN
    /\ last.handler = "update_recurring_pattern"
    /\ last.status_code = 400
    /\ last.end_date = UNSET
    /\ last.max_occurrences = 1
    /\ patterns.table[last.id].end_date # NULL
    /\ patterns.table[last.id].max_occurrences = NULL

====
